---- MODULE Spec2Model ----
(***************************************************************************)
(* A model of the Raft engine of src/src/raft_server.c and of its log,     *)
(* src/src/raft_log.c.  A server is a record; every entry point of the     *)
(* engine is an operator from a server record (and the inputs of the call) *)
(* to the server record the call leaves behind, the response it fills in,  *)
(* its return code and the messages it hands to the send callbacks.        *)
(* Failed assert()s do not stop the call (an NDEBUG build); the call       *)
(* records them in its result.                                             *)
(***************************************************************************)
EXTENDS Integers, Sequences, FiniteSets, TLC

\* ------------------------------------------------------------------ bounds
\* Highest term a server may enter by itself or be sent.
MaxTerm == 2
\* The clock stops advancing here.
MaxTime == 1
\* Highest log index an entry may be appended at.
MaxIdx == 2
\* Host setting raft_set_election_timeout, in clock ticks.
ElectionTimeout == 1
\* Host setting raft_set_request_timeout, in clock ticks.
RequestTimeout == 1

\* --------------------------------------------------------------- constants
INITIAL_CAPACITY == 10

\* lease_maintenance_grace as raft_new leaves it.
LeaseMaintenanceGrace == 0

RAFT_ERR_NOT_LEADER == -2
RAFT_ERR_ONE_VOTING_CHANGE_ONLY == -3
RAFT_ERR_SHUTDOWN == -4
RAFT_ERR_NOMEM == -5
RAFT_ERR_SNAPSHOT_IN_PROGRESS == -7
RAFT_ERR_SNAPSHOT_ALREADY_LOADED == -8
RAFT_ERR_INVALID_CFG_CHANGE == -9
RAFT_ERR_MIGHT_VIOLATE_LEASE == -10

RAFT_REQUESTVOTE_ERR_GRANTED == 1
RAFT_REQUESTVOTE_ERR_NOT_GRANTED == 0
RAFT_REQUESTVOTE_ERR_UNKNOWN_NODE == -1

\* The value of "no node" and "no index" (-1 in the source).
None == -1

\* The value v under the name F gives it: v is computed once.
With(v, F(_)) == F(v)

Min(a, b) == IF a < b THEN a ELSE b
Max(a, b) == IF a < b THEN b ELSE a

\* C's %: the result has the sign of the dividend.
CRem(a, b) == IF a >= 0 THEN a % b ELSE 0 - ((0 - a) % b)

\* ------------------------------------------------------------------- entries
CfgChangeTypes == {"ADD_NONVOTING_NODE", "ADD_NODE", "PROMOTE_NODE",
                   "DEMOTE_NODE", "REMOVE_NONVOTING_NODE", "REMOVE_NODE"}

\* A log entry: its term, the host's id, its type, and the node id the host's
\* log_get_node_id callback reads from its payload (0 when it names none).
Entry(term, id, type, node) == [term |-> term, id |-> id, type |-> type, node |-> node]

\* A slot of calloc'ed memory.
ZeroEntry == Entry(0, 0, "NORMAL", 0)

\* ----------------------------------------------------------------------- log
mod(a, b) == LET r == CRem(a, b) IN IF r < 0 THEN r + b ELSE r

\* The term of the entry at index base, which raft_server.c reads with
\* log_get_base_term: the log keeps it when it polls an entry away and forgets
\* it when it is cleared.
log_set_base_term(me, term) == [me EXCEPT !.base_term = term]

log_clear(me) ==
    log_set_base_term([me EXCEPT !.count = 0, !.back = 0, !.front = 0, !.base = 0], 0)

log_alloc(initial_size) ==
    [size |-> initial_size, count |-> 0, front |-> 0, back |-> 0, base |-> 0,
     base_term |-> 0, entries |-> [i \in 0..(initial_size - 1) |-> ZeroEntry]]

log_new == log_alloc(INITIAL_CAPACITY)

has_idx(me, idx) == me.base < idx /\ idx <= me.base + me.count

subscript(me, idx) == CRem(me.front + (idx - (me.base + 1)), me.size)

batch_up(me, idx, n) ==
    LET lo == subscript(me, idx)
        hi == subscript(me, idx + n - 1)
    IN  IF lo <= hi THEN hi - lo + 1 ELSE me.size - lo

batch_down(me, idx, n) ==
    LET hi == subscript(me, idx)
        lo == subscript(me, idx - n + 1)
    IN  IF lo <= hi THEN hi - lo + 1 ELSE hi + 1

\* The entry at entries[p]; a subscript outside the array reads whatever lies
\* there, the value junk.
slot(me, p, junk) == IF p \in 0..(me.size - 1) THEN me.entries[p] ELSE junk

\* log_get_from_idx: the contiguous run of entries that starts at idx.
log_get_from_idx(me, idx) ==
    IF ~has_idx(me, idx) THEN << >>
    ELSE LET n == batch_up(me, idx, (me.base + me.count) - idx + 1)
             p == subscript(me, idx)
         IN  [j \in 1..n |-> me.entries[p + j - 1]]

log_get_at_idx(me, idx) == me.entries[subscript(me, idx)]

log_count(me) == me.count

log_get_current_idx(me) == log_count(me) + me.base

log_get_base(me) == me.base

log_get_base_term(me) == me.base_term

NewSize(size, need) ==
    LET RECURSIVE grow(_)
        grow(s) == IF s < need THEN grow(s * 2) ELSE s
    IN  grow(size)

\* A larger array that takes over the entries from front to the end of the old
\* array only.
ensurecapacity_to_the_end(me, n, nomem) ==
    IF me.count + n <= me.size THEN [log |-> me, e |-> 0]
    ELSE IF nomem THEN [log |-> me, e |-> RAFT_ERR_NOMEM]
    ELSE LET newsize == NewSize(me.size, me.count + n)
             temp == [p \in 0..(newsize - 1) |->
                        IF p < Min(me.count, me.size - me.front)
                        THEN me.entries[me.front + p] ELSE ZeroEntry]
         IN  [log |-> [me EXCEPT !.size = newsize, !.entries = temp,
                                 !.front = 0, !.back = me.count],
              e |-> 0]

\* __ensurecapacity: nomem is the outcome of calloc.
ensurecapacity(me, n, nomem) ==
    IF me.count + n <= me.size THEN [log |-> me, e |-> 0]
    ELSE IF nomem THEN [log |-> me, e |-> RAFT_ERR_NOMEM]
    ELSE LET newsize == NewSize(me.size, me.count + n)
             temp == [p \in 0..(newsize - 1) |->
                        IF me.front < me.back
                        THEN IF p < me.back - me.front
                             THEN me.entries[me.front + p] ELSE ZeroEntry
                        ELSE IF me.count > 0
                        THEN IF p < me.size - me.front
                             THEN me.entries[me.front + p]
                             ELSE IF p < (me.size - me.front) + me.back
                             THEN me.entries[p - (me.size - me.front)]
                             ELSE ZeroEntry
                        ELSE ZeroEntry]
         IN  [log |-> [me EXCEPT !.size = newsize, !.entries = temp,
                                 !.front = 0, !.back = me.count],
              e |-> 0]

\* The log_offer, log_pop and log_poll callbacks: cb.k is the number of entries
\* the host accepts over the whole call before it fails with cb.e (cb.e = 0: it
\* accepts them all).
CbAll == [k |-> 0, e |-> 0]
CbTake(cb, taken, k) == IF cb.e = 0 THEN k ELSE Min(k, Max(cb.k - taken, 0))
CbErr(cb, taken, k) == IF cb.e # 0 /\ cb.k - taken < k THEN cb.e ELSE 0

\* log_append: the log after the call, *n, the return code, and the runs handed
\* to raft_offer_log (entries, first index).
RECURSIVE log_append_loop(_, _, _, _, _)
log_append_loop(me, ety, i, cb, runs) ==
    IF i >= Len(ety) THEN [log |-> me, n |-> Len(ety), e |-> 0, runs |-> runs]
    ELSE With(batch_up(me, me.base + me.count + 1, Len(ety) - i), LAMBDA k0 :
         With(CbTake(cb, i, k0), LAMBDA k :
         With([me EXCEPT !.entries =
                  [p \in 0..(me.size - 1) |->
                     IF me.back <= p /\ p < me.back + k0
                     THEN ety[i + 1 + (p - me.back)] ELSE me.entries[p]],
                         !.count = me.count + k,
                         !.back = mod(me.back + k, me.size)], LAMBDA taken :
         With(IF k > 0
              THEN Append(runs, [entries |-> SubSeq(ety, i + 1, i + k),
                                 idx |-> me.base + me.count + 1])
              ELSE runs, LAMBDA runs2 :
             IF CbErr(cb, i, k0) # 0
             THEN [log |-> taken, n |-> i + k, e |-> CbErr(cb, i, k0), runs |-> runs2]
             ELSE log_append_loop(taken, ety, i + k, cb, runs2)))))

\* An append that keeps every entry it has offered, whatever the callback took.
log_append_offered(me, ety, cb, nomem) ==
    With(ensurecapacity(me, Len(ety), nomem), LAMBDA c :
        IF c.e # 0 THEN [log |-> me, n |-> Len(ety), e |-> c.e, runs |-> << >>]
        ELSE [log_append_loop(c.log, ety, 0, CbAll, << >>)
                 EXCEPT !.e = CbErr(cb, 0, Len(ety))])

log_append(me, ety, cb, nomem) ==
    With(ensurecapacity(me, Len(ety), nomem), LAMBDA c :
        IF c.e # 0 THEN [log |-> me, n |-> Len(ety), e |-> c.e, runs |-> << >>]
        ELSE log_append_loop(c.log, ety, 0, cb, << >>))

\* log_delete: the log after the call, the return code, and the runs handed to
\* log_pop and raft_pop_log: the k entries read at entries[back - 1 - k] and
\* the index passed with them.
RECURSIVE log_delete_loop(_, _, _, _, _, _)
log_delete_loop(me, idx, cb, done, junk, runs) ==
    IF ~(idx <= me.base + me.count) THEN [log |-> me, e |-> 0, runs |-> runs]
    ELSE With(batch_down(me, me.base + me.count, me.base + me.count - idx + 1), LAMBDA k0 :
         With(CbTake(cb, done, k0), LAMBDA k :
         With([me EXCEPT !.back = mod(me.back - k, me.size), !.count = me.count - k],
              LAMBDA popped :
         With(IF k > 0
              THEN Append(runs, [entries |-> [j \in 1..k |->
                                                slot(me, me.back - 1 - k0 + j - 1, junk)],
                                 idx |-> idx])
              ELSE runs, LAMBDA runs2 :
             IF CbErr(cb, done, k0) # 0
             THEN [log |-> popped, e |-> CbErr(cb, done, k0), runs |-> runs2]
             ELSE log_delete_loop(popped, idx, cb, done + k, junk, runs2)))))

log_delete(me, idx, cb, junk) ==
    IF ~has_idx(me, idx) THEN [log |-> me, e |-> -1, runs |-> << >>]
    ELSE log_delete_loop(me, idx, cb, 0, junk, << >>)

\* log_poll: the log after the call and the return code.  The term of the last
\* entry polled stays known as the base term.
RECURSIVE log_poll_loop(_, _, _, _)
log_poll_loop(me, idx, cb, done) ==
    IF ~(me.base + 1 <= idx) THEN [log |-> me, e |-> 0]
    ELSE With(batch_up(me, me.base + 1, idx - (me.base + 1) + 1), LAMBDA k0 :
         With(CbTake(cb, done, k0), LAMBDA k :
         With(IF k > 0
              THEN log_set_base_term(
                       [me EXCEPT !.front = mod(me.front + k, me.size),
                                  !.count = me.count - k,
                                  !.base = me.base + k],
                       me.entries[me.front + k - 1].term)
              ELSE me, LAMBDA polled :
             IF CbErr(cb, done, k0) # 0 THEN [log |-> polled, e |-> CbErr(cb, done, k0)]
             ELSE log_poll_loop(polled, idx, cb, done + k))))

log_poll(me, idx, cb) ==
    IF ~has_idx(me, idx) THEN [log |-> me, e |-> -1]
    ELSE log_poll_loop(me, idx, cb, 0)

\* A snapshot load that takes the snapshot's index for the base.
log_load_from_snapshot_at_base(me, idx, term, cb, nomem) ==
    With(log_append(log_clear(me), << Entry(term, 1, "SNAPSHOT", 0) >>, cb, nomem), LAMBDA a :
        IF a.e # 0 THEN a
        ELSE [a EXCEPT !.log = [a.log EXCEPT !.base = idx]])

\* log_load_from_snapshot: the log and the run handed to raft_offer_log.
log_load_from_snapshot(me, idx, term, cb, nomem) ==
    With(log_append(log_clear(me), << Entry(term, 1, "SNAPSHOT", 0) >>, cb, nomem), LAMBDA a :
        IF a.e # 0 THEN a
        ELSE [a EXCEPT !.log = [a.log EXCEPT !.base = idx - 1]])

\* --------------------------------------------------------------------- nodes
\* The ids a node may have.
NodeIds == {1, 2, 3}

\* raft_node_new: a peer record as the peer table holds it.
raft_node_new ==
    [voting |-> TRUE, has_sufficient_logs |-> FALSE, next_idx |-> 1, match_idx |-> 0,
     effective_time |-> 0, lease |-> 0, vote_for_me |-> FALSE]

\* -------------------------------------------------------------------- server
\* The outcomes of the host's callbacks during one call of an entry point.
HostOk ==
    [persist_term |-> 0, persist_vote |-> 0, applylog |-> CbAll, rand |-> ElectionTimeout,
     offer |-> CbAll, pop |-> CbAll, poll |-> CbAll, nomem |-> FALSE,
     junk |-> ZeroEntry, lease |-> 0, sufficient |-> 0, installsnapshot |-> 0,
     installsnapshot_response |-> 0]

\* raft_randomize_election_timeout: a value of [election_timeout, 2 * election_timeout).
RandTimeouts == ElectionTimeout..(2 * ElectionTimeout - 1)

\* raft_new, then raft_set_callbacks at time now; rand is the timeout
\* raft_randomize_election_timeout drew.
raft_new(now, rand) ==
    [current_term |-> 0, voted_for |-> None, election_timer |-> now,
     election_timeout_rand |-> rand, log |-> log_new,
     voting_cfg_change_log_idx |-> None, state |-> "FOLLOWER", leader_id |-> None,
     node_id |-> None, commit_idx |-> 0, last_applied_idx |-> 0,
     snapshot_in_progress |-> FALSE, snapshot_last_idx |-> 0, snapshot_last_term |-> 0,
     start_time |-> now, first_start |-> FALSE, prevote |-> FALSE,
     connected |-> "CONNECTED", nodes |-> << >>]

HasNode(me, id) == id \in DOMAIN me.nodes
raft_is_self(me, id) == id = me.node_id
raft_get_current_idx(me) == log_get_current_idx(me.log)
raft_get_commit_idx(me) == me.commit_idx
raft_get_current_term(me) == me.current_term
raft_is_leader(me) == me.state = "LEADER"
raft_is_candidate(me) == me.state = "CANDIDATE"
raft_is_follower(me) == me.state = "FOLLOWER"
raft_snapshot_is_in_progress(me) == me.snapshot_in_progress
raft_node_is_voting(me, id) == me.nodes[id].voting
VotingNodes(me) == {id \in DOMAIN me.nodes : me.nodes[id].voting}
raft_get_num_voting_nodes(me) == Cardinality(VotingNodes(me))

\* raft_set_state
raft_set_state(me, state) ==
    [me EXCEPT !.state = state,
               !.leader_id = IF state = "LEADER" THEN me.node_id ELSE me.leader_id]

\* raft_set_commit_idx
raft_set_commit_idx(me, idx) == [me EXCEPT !.commit_idx = idx]

\* raft_set_snapshot_metadata
raft_set_snapshot_metadata(me, term, idx) ==
    [me EXCEPT !.snapshot_last_term = term, !.snapshot_last_idx = idx]

\* raft_set_current_term: the server and the return code.
raft_set_current_term(me, term, h) ==
    IF me.current_term < term
    THEN IF h.persist_term # 0 THEN [me |-> me, e |-> h.persist_term]
         ELSE [me |-> [me EXCEPT !.current_term = term, !.voted_for = None], e |-> 0]
    ELSE [me |-> me, e |-> 0]

\* A vote kept in memory whether the host has stored it or not.
raft_vote_for_nodeid_unstored(me, nodeid, h) ==
    [me |-> [me EXCEPT !.voted_for = nodeid], e |-> h.persist_vote]

\* raft_vote_for_nodeid: the server and the return code.
raft_vote_for_nodeid(me, nodeid, h) ==
    IF h.persist_vote # 0 THEN [me |-> me, e |-> h.persist_vote]
    ELSE [me |-> [me EXCEPT !.voted_for = nodeid], e |-> 0]

\* raft_get_entry_term: whether the term at idx is known, and the term.
raft_get_entry_term(me, idx) ==
    IF has_idx(me.log, idx) THEN [got |-> TRUE, term |-> log_get_at_idx(me.log, idx).term]
    ELSE IF idx = log_get_base(me.log) THEN [got |-> TRUE, term |-> log_get_base_term(me.log)]
    ELSE [got |-> FALSE, term |-> 0]

\* raft_get_last_log_term
raft_get_last_log_term(me) ==
    LET t == raft_get_entry_term(me, raft_get_current_idx(me))
    IN  IF 0 < raft_get_current_idx(me) /\ t.got THEN t.term ELSE 0

raft_voting_change_is_in_progress(me) == me.voting_cfg_change_log_idx # None

raft_entry_is_voting_cfg_change(ety) ==
    ety.type \in {"ADD_NODE", "PROMOTE_NODE", "DEMOTE_NODE", "REMOVE_NODE"}

raft_entry_is_cfg_change(ety) ==
    ety.type \in {"ADD_NODE", "ADD_NONVOTING_NODE", "PROMOTE_NODE", "DEMOTE_NODE",
                  "REMOVE_NONVOTING_NODE", "REMOVE_NODE"}

\* -------------------------------------------------------------- membership
\* raft_add_node_internal (voting) and raft_add_non_voting_node_internal: a node
\* that is already there is not added again.
raft_add_node_internal(me, id, is_self, voting, now) ==
    IF HasNode(me, id) THEN me
    ELSE LET n == [raft_node_new EXCEPT
                     !.voting = voting,
                     !.effective_time = IF raft_is_leader(me) THEN now ELSE 0]
         IN  [me EXCEPT !.nodes = [i \in (DOMAIN me.nodes) \cup {id} |->
                                     IF i = id THEN n ELSE me.nodes[i]],
                        !.node_id = IF is_self THEN id ELSE me.node_id]

\* raft_remove_node
raft_remove_node(me, id) ==
    [me EXCEPT !.nodes = [i \in (DOMAIN me.nodes) \ {id} |-> me.nodes[i]]]

raft_node_set_voting(me, id, voting) == [me EXCEPT !.nodes[id].voting = voting]

\* ------------------------------------------------------------ call results
\* What a step of a call leaves: the server, the messages sent, the asserts
\* that failed, whether the step dereferenced NULL (the process is gone), the
\* return code, and the applylog callbacks made.
Ok(me) == [me |-> me, out |-> << >>, asserts |-> {}, crash |-> FALSE, e |-> 0,
           applied |-> << >>]
Failed(me, e) == [Ok(me) EXCEPT !.e = e]
Crash(me) == [Ok(me) EXCEPT !.crash = TRUE]
AssertThat(r, cond, name) == IF cond THEN r ELSE [r EXCEPT !.asserts = @ \cup {name}]

\* r, then the step Next(r.me): the second step is not taken after a crash.
Then(r, Next(_)) ==
    IF r.crash THEN r
    ELSE LET q == Next(r.me)
         IN  [me |-> q.me, out |-> r.out \o q.out, asserts |-> r.asserts \cup q.asserts,
              crash |-> q.crash, e |-> q.e, applied |-> r.applied \o q.applied]

\* ------------------------------------------------------ raft_offer_log / pop
\* One entry of raft_offer_log's loop.
offer_log_entry(me, ety, idx, now) ==
    IF ~raft_entry_is_cfg_change(ety) THEN Ok(me)
    ELSE LET me1 == IF raft_entry_is_voting_cfg_change(ety)
                    THEN [me EXCEPT !.voting_cfg_change_log_idx = idx] ELSE me
             node_id == ety.node
             node == HasNode(me1, node_id)
             is_self == node_id = me1.node_id
         IN  CASE ety.type = "ADD_NONVOTING_NODE" ->
                    AssertThat(Ok(raft_add_node_internal(me1, node_id, is_self, FALSE, now)),
                               ~node, "offer_log")
               [] ety.type = "ADD_NODE" ->
                    AssertThat(Ok(raft_add_node_internal(me1, node_id, is_self, TRUE, now)),
                               ~node, "offer_log")
               [] ety.type = "PROMOTE_NODE" ->
                    IF ~node THEN Crash(me1)
                    ELSE AssertThat(Ok(raft_node_set_voting(me1, node_id, TRUE)),
                                    ~raft_node_is_voting(me1, node_id), "offer_log")
               [] ety.type = "DEMOTE_NODE" ->
                    IF ~node THEN Crash(me1)
                    ELSE AssertThat(Ok(raft_node_set_voting(me1, node_id, FALSE)),
                                    raft_node_is_voting(me1, node_id), "offer_log")
               [] ety.type = "REMOVE_NODE" ->
                    IF ~node THEN Crash(me1)
                    ELSE AssertThat(Ok(raft_remove_node(me1, node_id)),
                                    raft_node_is_voting(me1, node_id), "offer_log")
               [] ety.type = "REMOVE_NONVOTING_NODE" ->
                    IF ~node THEN Crash(me1)
                    ELSE AssertThat(Ok(raft_remove_node(me1, node_id)),
                                    ~raft_node_is_voting(me1, node_id), "offer_log")

\* raft_offer_log: entries[i] for i = 0 .. n_entries - 1, at index idx + i.
RECURSIVE raft_offer_log_from(_, _, _, _, _)
raft_offer_log_from(r, entries, i, idx, now) ==
    IF i > Len(entries) THEN r
    ELSE raft_offer_log_from(
             Then(r, LAMBDA m : offer_log_entry(m, entries[i], idx + i - 1, now)),
             entries, i + 1, idx, now)

raft_offer_log(me, entries, idx, now) == raft_offer_log_from(Ok(me), entries, 1, idx, now)

\* One entry of raft_pop_log's loop.
pop_log_entry(me, ety, idx, now) ==
    IF ~raft_entry_is_cfg_change(ety) THEN Ok(me)
    ELSE LET me1 == IF idx <= me.voting_cfg_change_log_idx
                    THEN [me EXCEPT !.voting_cfg_change_log_idx = None] ELSE me
             node_id == ety.node
             node == HasNode(me1, node_id)
             is_self == node_id = me1.node_id
         IN  CASE ety.type = "DEMOTE_NODE" ->
                    IF ~node THEN Crash(me1)
                    ELSE AssertThat(Ok(raft_node_set_voting(me1, node_id, TRUE)),
                                    ~raft_node_is_voting(me1, node_id), "pop_log")
               [] ety.type = "REMOVE_NODE" ->
                    AssertThat(Ok(raft_add_node_internal(me1, node_id, is_self, TRUE, now)),
                               ~node, "pop_log")
               [] ety.type = "REMOVE_NONVOTING_NODE" ->
                    AssertThat(Ok(raft_add_node_internal(me1, node_id, is_self, FALSE, now)),
                               ~node, "pop_log")
               [] ety.type = "ADD_NONVOTING_NODE" ->
                    IF ~node THEN Crash(me1)
                    ELSE AssertThat(Ok(raft_remove_node(me1, node_id)),
                                    ~raft_node_is_voting(me1, node_id), "pop_log")
               [] ety.type = "ADD_NODE" ->
                    IF ~node THEN Crash(me1)
                    ELSE AssertThat(Ok(raft_remove_node(me1, node_id)),
                                    raft_node_is_voting(me1, node_id), "pop_log")
               [] ety.type = "PROMOTE_NODE" ->
                    IF ~node THEN Crash(me1)
                    ELSE AssertThat(Ok(raft_node_set_voting(me1, node_id, FALSE)),
                                    raft_node_is_voting(me1, node_id), "pop_log")

\* raft_pop_log: entries[i] for i = n_entries - 1 down to 0, at index idx + i.
RECURSIVE raft_pop_log_from(_, _, _, _, _)
raft_pop_log_from(r, entries, i, idx, now) ==
    IF i < 1 THEN r
    ELSE raft_pop_log_from(
             Then(r, LAMBDA m : pop_log_entry(m, entries[i], idx + i - 1, now)),
             entries, i - 1, idx, now)

raft_pop_log(me, entries, idx, now) ==
    raft_pop_log_from(Ok(me), entries, Len(entries), idx, now)

\* The runs of a log_append call, each handed to raft_offer_log.
RECURSIVE OfferRuns(_, _, _, _)
OfferRuns(r, runs, i, now) ==
    IF i > Len(runs) THEN r
    ELSE OfferRuns(Then(r, LAMBDA m : raft_offer_log(m, runs[i].entries, runs[i].idx, now)),
                   runs, i + 1, now)

\* The runs of a log_delete call, each handed to raft_pop_log.
RECURSIVE PopRuns(_, _, _, _)
PopRuns(r, runs, i, now) ==
    IF i > Len(runs) THEN r
    ELSE PopRuns(Then(r, LAMBDA m : raft_pop_log(m, runs[i].entries, runs[i].idx, now)),
                 runs, i + 1, now)

\* raft_append_entries: log_append on the server's log, and raft_offer_log for
\* every run the log accepted.  n is the number of entries appended.
raft_append_entries(me, entries, now, h) ==
    With(log_append(me.log, entries, h.offer, h.nomem), LAMBDA a :
    With(OfferRuns(Ok([me EXCEPT !.log = a.log]), a.runs, 1, now), LAMBDA r :
        [r |-> [r EXCEPT !.e = IF r.crash THEN r.e ELSE a.e], n |-> a.n]))

\* raft_delete_entry_from_idx
raft_delete_entry_from_idx(me, idx, now, h) ==
    With(IF idx <= me.voting_cfg_change_log_idx
         THEN [me EXCEPT !.voting_cfg_change_log_idx = None] ELSE me, LAMBDA me1 :
    With(log_delete(me1.log, idx, h.pop, h.junk), LAMBDA d :
    With(PopRuns(Ok([me1 EXCEPT !.log = d.log]), d.runs, 1, now), LAMBDA r :
        AssertThat([r EXCEPT !.e = IF r.crash THEN r.e ELSE d.e],
                   raft_get_commit_idx(me) < idx, "delete_entry_from_idx"))))

\* ------------------------------------------------------------------ sending
\* The fields of every message: its kind, sender and receiver.
Msg(mtype, src, dst, body) ==
    [f \in {"mtype", "src", "dst"} \cup DOMAIN body |->
        CASE f = "mtype" -> mtype
          [] f = "src" -> src
          [] f = "dst" -> dst
          [] OTHER -> body[f]]

\* raft_send_requestvote
raft_send_requestvote(me, id) ==
    [Ok(me) EXCEPT !.out =
        << Msg("rv", me.node_id, id,
               [term |-> me.current_term,
                last_log_idx |-> raft_get_current_idx(me),
                last_log_term |-> raft_get_last_log_term(me),
                candidate_id |-> me.node_id,
                prevote |-> me.prevote]) >>]

\* raft_send_installsnapshot
raft_send_installsnapshot(me, id) ==
    [Ok(me) EXCEPT !.out =
        << Msg("is", me.node_id, id,
               [term |-> me.current_term,
                last_idx |-> log_get_base(me.log),
                last_term |-> log_get_base_term(me.log)]) >>]

\* raft_send_appendentries
raft_send_appendentries(me, id) ==
    LET next_idx == me.nodes[id].next_idx
        prev == raft_get_entry_term(me, next_idx - 1)
    IN  IF next_idx <= log_get_base(me.log) THEN raft_send_installsnapshot(me, id)
        ELSE AssertThat(
                 [Ok(me) EXCEPT !.out =
                     << Msg("ae", me.node_id, id,
                            [term |-> me.current_term,
                             leader_commit |-> raft_get_commit_idx(me),
                             entries |-> log_get_from_idx(me.log, next_idx),
                             prev_log_idx |-> next_idx - 1,
                             prev_log_term |-> prev.term]) >>],
                 prev.got, "send_appendentries")

\* A set as a sequence, in the order of the ids.
RECURSIVE SeqOf(_)
SeqOf(S) == IF S = {} THEN << >>
            ELSE LET x == CHOOSE y \in S : \A z \in S : y <= z
                 IN  << x >> \o SeqOf(S \ {x})

RECURSIVE Flatten(_)
Flatten(ss) == IF ss = << >> THEN << >> ELSE Head(ss) \o Flatten(Tail(ss))

\* A sending step for each of the nodes ids, one after the other: sending
\* leaves the server as it is.
SendEach(r, ids, Send(_, _)) ==
    IF r.crash THEN r
    ELSE [r EXCEPT !.out = @ \o Flatten([i \in 1..Len(ids) |-> Send(r.me, ids[i]).out]),
                   !.asserts = @ \cup UNION {Send(r.me, ids[i]).asserts : i \in 1..Len(ids)}]

OtherNodes(me) == {id \in DOMAIN me.nodes : ~raft_is_self(me, id)}

\* raft_send_appendentries_all
raft_send_appendentries_all(me, now) ==
    SendEach(Ok([me EXCEPT !.election_timer = now]), SeqOf(OtherNodes(me)),
             raft_send_appendentries)

\* ------------------------------------------------------------------- roles
\* raft_become_leader
raft_become_leader(me, now) ==
    LET me1 == [raft_set_state(me, "LEADER") EXCEPT !.election_timer = now]
        me2 == [me1 EXCEPT !.nodes =
                  [id \in DOMAIN me1.nodes |->
                     IF raft_is_self(me1, id) THEN me1.nodes[id]
                     ELSE [me1.nodes[id] EXCEPT !.next_idx = raft_get_current_idx(me1) + 1,
                                                !.match_idx = 0,
                                                !.effective_time = now]]]
    IN  SendEach(Ok(me2), SeqOf(OtherNodes(me2)), raft_send_appendentries)

\* A lease check that knows of no leader.
raft_lease_granted_at_start(me, except_id, now) ==
    ~me.first_start /\ now - me.start_time < ElectionTimeout

\* raft_lease_granted
raft_lease_granted(me, except_id, now) ==
    \/ ~me.first_start /\ now - me.start_time < ElectionTimeout
    \/ /\ me.leader_id # None
       /\ me.leader_id # except_id
       /\ now - me.election_timer < ElectionTimeout

\* raft_get_nvotes_for_me
raft_get_nvotes_for_me(me) ==
    Cardinality({id \in DOMAIN me.nodes : me.nodes[id].voting /\ me.nodes[id].vote_for_me})

\* A majority that half of the nodes make.
raft_votes_is_half(num_nodes, nvotes) ==
    IF num_nodes < nvotes THEN FALSE
    ELSE num_nodes \div 2 <= nvotes

\* raft_votes_is_majority
raft_votes_is_majority(num_nodes, nvotes) ==
    IF num_nodes < nvotes THEN FALSE
    ELSE (num_nodes \div 2) + 1 <= nvotes

ClearVotes(me) ==
    [me EXCEPT !.nodes = [id \in DOMAIN me.nodes |-> [me.nodes[id] EXCEPT !.vote_for_me = FALSE]]]

\* raft_node_vote_for_me(raft_get_my_node(me), 1): without an own node the call
\* dereferences NULL.
VoteForSelf(me) ==
    IF HasNode(me, me.node_id) THEN Ok([me EXCEPT !.nodes[me.node_id].vote_for_me = TRUE])
    ELSE Crash(me)

RequestVoteTargets(me) ==
    {id \in DOMAIN me.nodes : ~raft_is_self(me, id) /\ raft_node_is_voting(me, id)}

\* raft_count_votes and raft_become_prevoted_candidate call each other.
RECURSIVE raft_count_votes(_, _, _)

\* A candidacy that goes on when the vote for itself could not be stored.
raft_become_prevoted_candidate_unvoted(me, now, h) ==
    LET t == raft_set_current_term(me, raft_get_current_term(me) + 1, h)
        v == raft_vote_for_nodeid(ClearVotes(t.me), t.me.node_id, h)
    IN  IF t.e # 0 THEN Failed(t.me, t.e)
        ELSE Then(Then(Then(VoteForSelf(v.me),
                            LAMBDA m : Ok([m EXCEPT !.prevote = FALSE])),
                       LAMBDA m : SendEach(Ok(m), SeqOf(RequestVoteTargets(m)),
                                           raft_send_requestvote)),
                  LAMBDA m : raft_count_votes(m, now, h))

\* raft_become_prevoted_candidate
raft_become_prevoted_candidate(me, now, h) ==
    LET t == raft_set_current_term(me, raft_get_current_term(me) + 1, h)
        v == raft_vote_for_nodeid(ClearVotes(t.me), t.me.node_id, h)
    IN  IF t.e # 0 THEN Failed(t.me, t.e)
        ELSE IF v.e # 0 THEN Failed(v.me, v.e)
        ELSE Then(Then(Then(VoteForSelf(v.me),
                            LAMBDA m : Ok([m EXCEPT !.prevote = FALSE])),
                       LAMBDA m : SendEach(Ok(m), SeqOf(RequestVoteTargets(m)),
                                           raft_send_requestvote)),
                  LAMBDA m : raft_count_votes(m, now, h))

raft_count_votes(me, now, h) ==
    IF raft_votes_is_majority(raft_get_num_voting_nodes(me), raft_get_nvotes_for_me(me))
    THEN IF me.prevote THEN raft_become_prevoted_candidate(me, now, h)
         ELSE raft_become_leader(me, now)
    ELSE Ok(me)

\* A candidacy that does not wait for the prevotes.
raft_become_candidate_at_once(me, now, h) ==
    IF raft_lease_granted(me, me.node_id, now) THEN Failed(me, RAFT_ERR_MIGHT_VIOLATE_LEASE)
    ELSE raft_become_prevoted_candidate(
             [raft_set_state(me, "CANDIDATE") EXCEPT !.leader_id = None,
                                                     !.election_timeout_rand = h.rand,
                                                     !.election_timer = now], now, h)

\* raft_become_candidate
raft_become_candidate(me, now, h) ==
    IF raft_lease_granted(me, me.node_id, now) THEN Failed(me, RAFT_ERR_MIGHT_VIOLATE_LEASE)
    ELSE LET me1 == [raft_set_state(me, "CANDIDATE") EXCEPT !.prevote = TRUE]
         IN  Then(Then(Then(VoteForSelf(ClearVotes(me1)),
                            LAMBDA m : Ok([m EXCEPT !.leader_id = None,
                                                    !.election_timeout_rand = h.rand,
                                                    !.election_timer = now])),
                       LAMBDA m : SendEach(Ok(m), SeqOf(RequestVoteTargets(m)),
                                           raft_send_requestvote)),
                  LAMBDA m : raft_count_votes(m, now, h))

\* raft_election_start
raft_election_start(me, now, h) == raft_become_candidate(me, now, h)

\* raft_become_follower
raft_become_follower(me, now, h) ==
    [raft_set_state(me, "FOLLOWER") EXCEPT !.election_timeout_rand = h.rand,
                                           !.election_timer = now]

\* ------------------------------------------------------------------- leases
\* A lease check that gives a new leader no time to acquire its first leases.
has_lease_without_start(me, id, now, with_grace) ==
    IF raft_is_self(me, id) THEN TRUE
    ELSE IF with_grace
    THEN now < me.nodes[id].lease + LeaseMaintenanceGrace
    ELSE now < me.nodes[id].lease

\* has_lease
has_lease(me, id, now, with_grace) ==
    IF raft_is_self(me, id) THEN TRUE
    ELSE IF with_grace
    THEN \/ now < me.nodes[id].lease + LeaseMaintenanceGrace
         \/ now - me.nodes[id].effective_time < ElectionTimeout + LeaseMaintenanceGrace
    ELSE now < me.nodes[id].lease

\* has_majority_leases
has_majority_leases(me, now, with_grace) ==
    LET n_voting == Cardinality(VotingNodes(me))
        n == Cardinality({id \in VotingNodes(me) : has_lease(me, id, now, with_grace)})
    IN  (n_voting \div 2) + 1 <= n

\* raft_has_majority_leases
raft_has_majority_leases(me, now) ==
    IF me.state # "LEADER" THEN FALSE
    ELSE has_majority_leases(me, now, FALSE)

\* ----------------------------------------------------------------- applying
\* raft_apply_entry that hands applylog the entry after the one it is to apply.
raft_apply_entry_skipping(me, h, done) ==
    IF raft_snapshot_is_in_progress(me) THEN Failed(me, -1)
    ELSE IF me.last_applied_idx = raft_get_commit_idx(me) THEN Failed(me, -1)
    ELSE LET log_idx == me.last_applied_idx + 1
             me1 == [me EXCEPT !.last_applied_idx = me.last_applied_idx + 1]
             call == [idx |-> me1.last_applied_idx,
                      ety |-> log_get_at_idx(me.log, log_idx + 1)]
         IN  IF ~has_idx(me.log, log_idx + 1) THEN Failed(me, -1)
             ELSE [Ok(me1) EXCEPT !.applied = << call >>]

\* raft_apply_entry that leaves voting_cfg_change_log_idx as it is.
raft_apply_entry_keeping_change(me, h, done) ==
    IF raft_snapshot_is_in_progress(me) THEN Failed(me, -1)
    ELSE IF me.last_applied_idx = raft_get_commit_idx(me) THEN Failed(me, -1)
    ELSE LET log_idx == me.last_applied_idx + 1
             me1 == [me EXCEPT !.last_applied_idx = me.last_applied_idx + 1]
             call == [idx |-> me1.last_applied_idx, ety |-> log_get_at_idx(me.log, log_idx)]
             e == CbErr(h.applylog, done, 1)
         IN  IF ~has_idx(me.log, log_idx) THEN Failed(me, -1)
             ELSE IF e = RAFT_ERR_SHUTDOWN
             THEN [Failed(me1, RAFT_ERR_SHUTDOWN) EXCEPT !.applied = << call >>]
             ELSE [Ok(me1) EXCEPT !.applied = << call >>]

\* raft_apply_entry: done is the number of applylog callbacks the call has made.
raft_apply_entry(me, h, done) ==
    IF raft_snapshot_is_in_progress(me) THEN Failed(me, -1)
    ELSE IF me.last_applied_idx = raft_get_commit_idx(me) THEN Failed(me, -1)
    ELSE LET log_idx == me.last_applied_idx + 1
             me1 == [me EXCEPT !.last_applied_idx = me.last_applied_idx + 1]
             call == [idx |-> me1.last_applied_idx, ety |-> log_get_at_idx(me.log, log_idx)]
             e == CbErr(h.applylog, done, 1)
         IN  IF ~has_idx(me.log, log_idx) THEN Failed(me, -1)
             ELSE IF e = RAFT_ERR_SHUTDOWN
             THEN [Failed(me1, RAFT_ERR_SHUTDOWN) EXCEPT !.applied = << call >>]
             ELSE [Ok(IF log_idx = me1.voting_cfg_change_log_idx
                      THEN [me1 EXCEPT !.voting_cfg_change_log_idx = None]
                      ELSE me1)
                   EXCEPT !.applied = << call >>]

\* raft_apply_all
RECURSIVE raft_apply_all_loop(_, _)
raft_apply_all_loop(r, h) ==
    IF r.e # 0 \/ ~(r.me.last_applied_idx < raft_get_commit_idx(r.me)) THEN r
    ELSE raft_apply_all_loop(Then(r, LAMBDA m : raft_apply_entry(m, h, Len(r.applied))), h)

raft_apply_all(me, h) ==
    IF raft_snapshot_is_in_progress(me) THEN Ok(me)
    ELSE raft_apply_all_loop(Ok(me), h)

\* ----------------------------------------------------------------- periodic
\* raft_periodic
raft_periodic(me, now, h) ==
    LET first ==
          IF me.state = "LEADER"
          THEN IF ~has_majority_leases(me, now, TRUE)
               THEN Ok([raft_become_follower(me, now, h) EXCEPT !.leader_id = None])
               ELSE IF RequestTimeout <= now - me.election_timer
               THEN [raft_send_appendentries_all(me, now) EXCEPT !.e = 0]
               ELSE Ok(me)
          ELSE IF /\ me.election_timeout_rand <= now - me.election_timer
                  /\ ~raft_snapshot_is_in_progress(me)
                  /\ HasNode(me, me.node_id)
                  /\ raft_node_is_voting(me, me.node_id)
          THEN raft_election_start(me, now, h)
          ELSE Ok(me)
    IN  IF first.e # 0 THEN first
        ELSE Then(first, LAMBDA m :
                 IF m.last_applied_idx < raft_get_commit_idx(m)
                    /\ ~raft_snapshot_is_in_progress(m)
                 THEN raft_apply_all(m, h)
                 ELSE Ok(m))

\* -------------------------------------------------------------- RequestVote
\* __should_grant_vote without its look at voted_for.
should_grant_vote_again(me, vr) ==
    IF vr.term < raft_get_current_term(me) THEN FALSE
    ELSE LET current_idx == raft_get_current_idx(me)
             term == raft_get_entry_term(me, current_idx).term
         IN  \/ term < vr.last_log_term
             \/ vr.last_log_term = term /\ current_idx <= vr.last_log_idx

\* A vote that a log as long as the voter's does not earn.
should_grant_vote_longer_log(me, vr) ==
    IF vr.term < raft_get_current_term(me) THEN FALSE
    ELSE IF ~vr.prevote /\ me.voted_for # None /\ me.voted_for # vr.candidate_id THEN FALSE
    ELSE LET current_idx == raft_get_current_idx(me)
             term == raft_get_entry_term(me, current_idx).term
         IN  \/ term < vr.last_log_term
             \/ vr.last_log_term = term /\ current_idx < vr.last_log_idx

\* __should_grant_vote
should_grant_vote(me, vr) ==
    IF vr.term < raft_get_current_term(me) THEN FALSE
    ELSE IF ~vr.prevote /\ me.voted_for # None /\ me.voted_for # vr.candidate_id THEN FALSE
    ELSE LET current_idx == raft_get_current_idx(me)
             term == raft_get_entry_term(me, current_idx).term
         IN  \/ term < vr.last_log_term
             \/ vr.last_log_term = term /\ current_idx <= vr.last_log_idx

\* The response of raft_recv_requestvote as it is filled in at done:.
VoteResponse(me, vr, vote_granted) ==
    [term |-> raft_get_current_term(me), vote_granted |-> vote_granted,
     prevote |-> vr.prevote]

\* A refusal that respects no lease: only a leader refuses without a look at the
\* term of the request.
requestvote_refused_by_leader(me, vr, now) == me.state = "LEADER"

\* raft_recv_requestvote: the request is refused without a look
\* at its term.
requestvote_refused_for_lease(me, vr, now) ==
    me.state = "LEADER" \/ raft_lease_granted(me, vr.candidate_id, now)

\* The term of the request adopted whenever it differs from current_term.
requestvote_adopt_any_term(me, vr, now, h) ==
    IF raft_get_current_term(me) # vr.term
    THEN Ok([raft_become_follower([me EXCEPT !.current_term = vr.term,
                                             !.voted_for = None], now, h)
               EXCEPT !.leader_id = None])
    ELSE Ok(me)

\* raft_recv_requestvote: a higher term is adopted.
requestvote_adopt_term(me, vr, now, h) ==
    IF raft_get_current_term(me) < vr.term
    THEN LET t == raft_set_current_term(me, vr.term, h)
         IN  IF t.e # 0 THEN Failed(t.me, t.e)
             ELSE Ok([raft_become_follower(t.me, now, h) EXCEPT !.leader_id = None])
    ELSE Ok(me)

\* A refusal that does not tell a candidate that the server does not know it.
requestvote_decide_known(me, vr, now, h) ==
    IF should_grant_vote(me, vr)
    THEN LET ok == ~raft_is_leader(me) /\ (~raft_is_candidate(me) \/ me.prevote \/ vr.prevote)
         IN  IF ~vr.prevote
             THEN LET v == raft_vote_for_nodeid(me, vr.candidate_id, h)
                      me1 == [v.me EXCEPT !.leader_id = None, !.election_timer = now]
                  IN  [r |-> AssertThat(Failed(me1, v.e), ok, "recv_requestvote"),
                       resp |-> VoteResponse(me1, vr,
                                    IF v.e # 0 THEN 0 ELSE RAFT_REQUESTVOTE_ERR_GRANTED)]
             ELSE [r |-> AssertThat(Ok(me), ok, "recv_requestvote"),
                   resp |-> VoteResponse(me, vr, RAFT_REQUESTVOTE_ERR_GRANTED)]
    ELSE [r |-> Ok(me), resp |-> VoteResponse(me, vr, RAFT_REQUESTVOTE_ERR_NOT_GRANTED)]

\* raft_recv_requestvote: the vote is granted or not.
requestvote_decide(me, vr, now, h) ==
    IF should_grant_vote(me, vr)
    THEN LET ok == ~raft_is_leader(me) /\ (~raft_is_candidate(me) \/ me.prevote \/ vr.prevote)
         IN  IF ~vr.prevote
             THEN LET v == raft_vote_for_nodeid(me, vr.candidate_id, h)
                      me1 == [v.me EXCEPT !.leader_id = None, !.election_timer = now]
                  IN  [r |-> AssertThat(Failed(me1, v.e), ok, "recv_requestvote"),
                       resp |-> VoteResponse(me1, vr,
                                    IF v.e # 0 THEN 0 ELSE RAFT_REQUESTVOTE_ERR_GRANTED)]
             ELSE [r |-> AssertThat(Ok(me), ok, "recv_requestvote"),
                   resp |-> VoteResponse(me, vr, RAFT_REQUESTVOTE_ERR_GRANTED)]
    ELSE [r |-> Ok(me),
          resp |-> VoteResponse(me, vr,
                       IF ~HasNode(me, vr.candidate_id)
                       THEN RAFT_REQUESTVOTE_ERR_UNKNOWN_NODE
                       ELSE RAFT_REQUESTVOTE_ERR_NOT_GRANTED)]

\* raft_recv_requestvote: the call's result r and the response resp.
raft_recv_requestvote(me, vr, now, h) ==
    IF requestvote_refused_for_lease(me, vr, now)
    THEN [r |-> Ok(me), resp |-> VoteResponse(me, vr, RAFT_REQUESTVOTE_ERR_NOT_GRANTED)]
    ELSE LET t == requestvote_adopt_term(me, vr, now, h)
         IN  IF t.e # 0
             THEN [r |-> t, resp |-> VoteResponse(t.me, vr, RAFT_REQUESTVOTE_ERR_NOT_GRANTED)]
             ELSE requestvote_decide(t.me, vr, now, h)

\* raft_recv_requestvote_response: the response is not looked at.
voteresponse_ignored(me, r) ==
    \/ ~raft_is_candidate(me)
    \/ me.prevote # r.prevote
    \/ (~(raft_get_current_term(me) < r.term) /\ raft_get_current_term(me) # r.term)

\* A candidate that counts a response whatever round it answers.
raft_recv_requestvote_response_any_round(me, node, r, now, h) ==
    IF ~raft_is_candidate(me) THEN Ok(me)
    ELSE IF raft_get_current_term(me) < r.term
    THEN LET t == raft_set_current_term(me, r.term, h)
         IN  IF t.e # 0 THEN Failed(t.me, t.e)
             ELSE Ok([raft_become_follower(t.me, now, h) EXCEPT !.leader_id = None])
    ELSE IF raft_get_current_term(me) # r.term THEN Ok(me)
    ELSE CASE r.vote_granted = RAFT_REQUESTVOTE_ERR_GRANTED ->
                raft_count_votes(IF HasNode(me, node)
                                 THEN [me EXCEPT !.nodes[node].vote_for_me = TRUE]
                                 ELSE me,
                                 now, h)
           [] OTHER -> Ok(me)

\* raft_recv_requestvote_response: node is the id of the sender.
raft_recv_requestvote_response(me, node, r, now, h) ==
    IF ~raft_is_candidate(me) \/ me.prevote # r.prevote THEN Ok(me)
    ELSE IF raft_get_current_term(me) < r.term
    THEN LET t == raft_set_current_term(me, r.term, h)
         IN  IF t.e # 0 THEN Failed(t.me, t.e)
             ELSE Ok([raft_become_follower(t.me, now, h) EXCEPT !.leader_id = None])
    ELSE IF voteresponse_ignored(me, r) THEN Ok(me)
    ELSE CASE r.vote_granted = RAFT_REQUESTVOTE_ERR_GRANTED ->
                raft_count_votes(IF HasNode(me, node)
                                 THEN [me EXCEPT !.nodes[node].vote_for_me = TRUE]
                                 ELSE me,
                                 now, h)
           [] r.vote_granted = RAFT_REQUESTVOTE_ERR_NOT_GRANTED -> Ok(me)
           [] r.vote_granted = RAFT_REQUESTVOTE_ERR_UNKNOWN_NODE ->
                IF ~HasNode(me, me.node_id) THEN Crash(me)
                ELSE IF raft_node_is_voting(me, me.node_id) /\ me.connected = "DISCONNECTING"
                THEN Failed(me, RAFT_ERR_SHUTDOWN)
                ELSE Ok(me)
           [] OTHER -> AssertThat(Ok(me), FALSE, "recv_requestvote_response")

\* ------------------------------------------------------------ AppendEntries
\* The response of raft_recv_appendentries as it is filled in at out:.
AppendEntriesResponse(me, ae, success, current_idx, lease) ==
    [term |-> raft_get_current_term(me), success |-> success,
     current_idx |-> IF success = 0 THEN raft_get_current_idx(me) ELSE current_idx,
     first_idx |-> ae.prev_log_idx + 1, lease |-> lease]

\* A request of a lower term taken for a request of the current term.
appendentries_term_any(me, ae, now, h) ==
    IF raft_is_candidate(me) /\ me.current_term = ae.term
    THEN [me |-> raft_become_follower(me, now, h), e |-> 0, stale |-> FALSE]
    ELSE IF me.current_term < ae.term
    THEN LET t == raft_set_current_term(me, ae.term, h)
         IN  IF t.e # 0 THEN [me |-> t.me, e |-> t.e, stale |-> TRUE]
             ELSE [me |-> raft_become_follower(t.me, now, h), e |-> 0, stale |-> FALSE]
    ELSE [me |-> me, e |-> 0, stale |-> FALSE]

\* raft_recv_appendentries: what the term of the request does to
\* the receiver; stale says that the request is refused for its term.
appendentries_term(me, ae, now, h) ==
    IF raft_is_candidate(me) /\ me.current_term = ae.term
    THEN [me |-> raft_become_follower(me, now, h), e |-> 0, stale |-> FALSE]
    ELSE IF me.current_term < ae.term
    THEN LET t == raft_set_current_term(me, ae.term, h)
         IN  IF t.e # 0 THEN [me |-> t.me, e |-> t.e, stale |-> TRUE]
             ELSE [me |-> raft_become_follower(t.me, now, h), e |-> 0, stale |-> FALSE]
    ELSE [me |-> me, e |-> 0, stale |-> ae.term < me.current_term]

\* A pass over the entries of the request that takes every entry the log holds
\* for a match, whatever its term.
RECURSIVE appendentries_scan_any_term(_, _, _)
appendentries_scan_any_term(me, ae, i) ==
    IF i >= Len(ae.entries) THEN i
    ELSE LET ety_index == ae.prev_log_idx + 1 + i
             t == raft_get_entry_term(me, ety_index)
         IN  IF ~t.got /\ raft_get_current_idx(me) < ety_index THEN i
             ELSE appendentries_scan_any_term(me, ae, i + 1)

\* raft_recv_appendentries: the number of entries of the request
\* the loop passes over before it stops.
RECURSIVE appendentries_scan(_, _, _)
appendentries_scan(me, ae, i) ==
    IF i >= Len(ae.entries) THEN i
    ELSE LET ety_index == ae.prev_log_idx + 1 + i
             t == raft_get_entry_term(me, ety_index)
         IN  IF t.got /\ t.term # ae.entries[i + 1].term THEN i
             ELSE IF ~t.got /\ raft_get_current_idx(me) < ety_index THEN i
             ELSE appendentries_scan(me, ae, i + 1)

\* The commit index set from the request without a look at the one held.
appendentries_commit_unguarded(me, ae, current_idx) ==
    raft_set_commit_idx(me, Min(ae.leader_commit, current_idx))

\* The commit index of the leader taken as it is, beyond the entries held.
appendentries_commit_uncapped(me, ae, current_idx) ==
    IF raft_get_commit_idx(me) < ae.leader_commit
    THEN raft_set_commit_idx(me, ae.leader_commit) ELSE me

\* raft_recv_appendentries: the commit index after the entries.
appendentries_commit(me, ae, current_idx) ==
    IF raft_get_commit_idx(me) < ae.leader_commit
    THEN LET new_commit_idx == Min(ae.leader_commit, current_idx)
         IN  IF raft_get_commit_idx(me) < new_commit_idx
             THEN raft_set_commit_idx(me, new_commit_idx) ELSE me
    ELSE me

\* The entries of the request put in the place of conflicting ones without a
\* look at commit_idx.
appendentries_entries_unchecked(me, ae, now, h, lease) ==
    With(appendentries_scan(me, ae, 0), LAMBDA i :
    With(/\ i < Len(ae.entries)
         /\ raft_get_entry_term(me, ae.prev_log_idx + 1 + i).got
         /\ raft_get_entry_term(me, ae.prev_log_idx + 1 + i).term # ae.entries[i + 1].term,
         LAMBDA conflict :
        IF FALSE
        THEN [r |-> Failed(me, RAFT_ERR_SHUTDOWN),
              resp |-> AppendEntriesResponse(me, ae, 1, ae.prev_log_idx + i, lease)]
        ELSE With(IF conflict
                  THEN raft_delete_entry_from_idx(me, ae.prev_log_idx + 1 + i, now, h)
                  ELSE Ok(me), LAMBDA d :
            IF d.crash \/ d.e # 0
            THEN [r |-> d,
                  resp |-> AppendEntriesResponse(d.me, ae, 1, ae.prev_log_idx + i, lease)]
            ELSE With(raft_append_entries(d.me, SubSeq(ae.entries, i + 1, Len(ae.entries)),
                                          now, h), LAMBDA a :
                 With(Then(d, LAMBDA m : a.r), LAMBDA r :
                    IF r.crash \/ r.e # 0
                    THEN [r |-> r,
                          resp |-> AppendEntriesResponse(r.me, ae, 1,
                                       ae.prev_log_idx + i + a.n, lease)]
                    ELSE With(appendentries_commit(r.me, ae, ae.prev_log_idx + i + a.n),
                              LAMBDA me2 :
                            [r |-> [r EXCEPT !.me = me2],
                             resp |-> AppendEntriesResponse(me2, ae, 1,
                                          ae.prev_log_idx + i + a.n, lease)]))))))

\* raft_recv_appendentries: the request has passed the check of
\* prev_log_idx.
appendentries_entries(me, ae, now, h, lease) ==
    With(appendentries_scan(me, ae, 0), LAMBDA i :
    With(/\ i < Len(ae.entries)
         /\ raft_get_entry_term(me, ae.prev_log_idx + 1 + i).got
         /\ raft_get_entry_term(me, ae.prev_log_idx + 1 + i).term # ae.entries[i + 1].term,
         LAMBDA conflict :
        IF conflict /\ ae.prev_log_idx + 1 + i <= raft_get_commit_idx(me)
        THEN [r |-> Failed(me, RAFT_ERR_SHUTDOWN),
              resp |-> AppendEntriesResponse(me, ae, 1, ae.prev_log_idx + i, lease)]
        ELSE With(IF conflict
                  THEN raft_delete_entry_from_idx(me, ae.prev_log_idx + 1 + i, now, h)
                  ELSE Ok(me), LAMBDA d :
            IF d.crash \/ d.e # 0
            THEN [r |-> d,
                  resp |-> AppendEntriesResponse(d.me, ae, 1, ae.prev_log_idx + i, lease)]
            ELSE With(raft_append_entries(d.me, SubSeq(ae.entries, i + 1, Len(ae.entries)),
                                          now, h), LAMBDA a :
                 With(Then(d, LAMBDA m : a.r), LAMBDA r :
                    IF r.crash \/ r.e # 0
                    THEN [r |-> r,
                          resp |-> AppendEntriesResponse(r.me, ae, 1,
                                       ae.prev_log_idx + i + a.n, lease)]
                    ELSE With(appendentries_commit(r.me, ae, ae.prev_log_idx + i + a.n),
                              LAMBDA me2 :
                            [r |-> [r EXCEPT !.me = me2],
                             resp |-> AppendEntriesResponse(me2, ae, 1,
                                          ae.prev_log_idx + i + a.n, lease)]))))))

\* The check of prev_log_idx that deletes a conflicting entry without a look at
\* commit_idx.
appendentries_prev_unchecked(me, node, ae, now, h) ==
    With([me EXCEPT !.leader_id = node, !.election_timer = now], LAMBDA me1 :
    With(raft_get_entry_term(me1, ae.prev_log_idx), LAMBDA t :
        IF 0 < ae.prev_log_idx /\ ~t.got /\ raft_get_current_idx(me1) < ae.prev_log_idx
        THEN [r |-> Ok(me1),
              resp |-> AppendEntriesResponse(me1, ae, 0, 0, now + ElectionTimeout)]
        ELSE IF 0 < ae.prev_log_idx /\ t.got /\ t.term # ae.prev_log_term
        THEN With(raft_delete_entry_from_idx(me1, ae.prev_log_idx, now, h), LAMBDA d :
                [r |-> d,
                 resp |-> AppendEntriesResponse(d.me, ae, 0, 0, now + ElectionTimeout)])
        ELSE appendentries_entries(me1, ae, now, h, now + ElectionTimeout)))

\* raft_recv_appendentries: the leader is taken note of, the
\* lease is granted, and prev_log_idx is checked.
appendentries_prev(me, node, ae, now, h) ==
    With([me EXCEPT !.leader_id = node, !.election_timer = now], LAMBDA me1 :
    With(raft_get_entry_term(me1, ae.prev_log_idx), LAMBDA t :
        IF 0 < ae.prev_log_idx /\ ~t.got /\ raft_get_current_idx(me1) < ae.prev_log_idx
        THEN [r |-> Ok(me1),
              resp |-> AppendEntriesResponse(me1, ae, 0, 0, now + ElectionTimeout)]
        ELSE IF 0 < ae.prev_log_idx /\ t.got /\ t.term # ae.prev_log_term
        THEN IF ae.prev_log_idx <= raft_get_commit_idx(me1)
             THEN [r |-> Failed(me1, RAFT_ERR_SHUTDOWN),
                   resp |-> AppendEntriesResponse(me1, ae, 0, 0, now + ElectionTimeout)]
             ELSE With(raft_delete_entry_from_idx(me1, ae.prev_log_idx, now, h), LAMBDA d :
                     [r |-> d,
                      resp |-> AppendEntriesResponse(d.me, ae, 0, 0, now + ElectionTimeout)])
        ELSE appendentries_entries(me1, ae, now, h, now + ElectionTimeout)))

\* raft_recv_appendentries: node is the id of the sender.  A request that is
\* refused for its term leaves r->lease as the caller's memory had it: h.lease.
raft_recv_appendentries(me, node, ae, now, h) ==
    With(appendentries_term(me, ae, now, h), LAMBDA t :
        IF t.stale
        THEN [r |-> Failed(t.me, t.e), resp |-> AppendEntriesResponse(t.me, ae, 0, 0, h.lease)]
        ELSE appendentries_prev(t.me, node, ae, now, h))

\* A commit index that follows the replicas whatever the term of the entry.
appendentries_response_commit_any_term(me, point) ==
    LET votes == 1 + Cardinality({id \in DOMAIN me.nodes :
                                    /\ ~raft_is_self(me, id)
                                    /\ raft_node_is_voting(me, id)
                                    /\ point <= me.nodes[id].match_idx})
    IN  IF /\ point # 0
           /\ raft_get_commit_idx(me) < point
           /\ raft_get_num_voting_nodes(me) \div 2 < votes
        THEN raft_set_commit_idx(me, point)
        ELSE me

\* raft_recv_appendentries_response: the commit index after the
\* follower acknowledged the entries up to point.
appendentries_response_commit(me, point) ==
    LET t == raft_get_entry_term(me, point)
        votes == 1 + Cardinality({id \in DOMAIN me.nodes :
                                    /\ ~raft_is_self(me, id)
                                    /\ raft_node_is_voting(me, id)
                                    /\ point <= me.nodes[id].match_idx})
    IN  IF /\ point # 0
           /\ raft_get_commit_idx(me) < point
           /\ t.got /\ t.term = me.current_term
           /\ raft_get_num_voting_nodes(me) \div 2 < votes
        THEN raft_set_commit_idx(me, point)
        ELSE me

\* A retry that leaves next_idx where it is unless the follower's log ends below.
appendentries_response_failed_in_place(me, node, r) ==
    LET next_idx == me.nodes[node].next_idx
        match_idx == me.nodes[node].match_idx
        asserted == {n \in {"recv_appendentries_response"} :
                       ~(0 < next_idx /\ match_idx <= next_idx - 1)}
        me1 == [me EXCEPT !.nodes[node].next_idx =
                   IF r.current_idx < next_idx - 1
                   THEN Min(r.current_idx + 1, raft_get_current_idx(me))
                   ELSE next_idx]
    IN  IF match_idx = next_idx - 1 THEN [Ok(me) EXCEPT !.asserts = asserted]
        ELSE [raft_send_appendentries(me1, node) EXCEPT !.asserts = @ \cup asserted]

\* A refusal that moves next_idx back whatever match_idx is.
appendentries_response_failed_unguarded(me, node, r) ==
    LET next_idx == me.nodes[node].next_idx
        me1 == [me EXCEPT !.nodes[node].next_idx =
                   IF r.current_idx < next_idx - 1
                   THEN Min(r.current_idx + 1, raft_get_current_idx(me))
                   ELSE next_idx - 1]
    IN  raft_send_appendentries(me1, node)

\* raft_recv_appendentries_response: the follower refused.
appendentries_response_failed(me, node, r) ==
    LET next_idx == me.nodes[node].next_idx
        match_idx == me.nodes[node].match_idx
        asserted == {n \in {"recv_appendentries_response"} :
                       ~(0 < next_idx /\ match_idx <= next_idx - 1)}
        me1 == [me EXCEPT !.nodes[node].next_idx =
                   IF r.current_idx < next_idx - 1
                   THEN Min(r.current_idx + 1, raft_get_current_idx(me))
                   ELSE next_idx - 1]
    IN  IF match_idx = next_idx - 1 THEN [Ok(me) EXCEPT !.asserts = asserted]
        ELSE [raft_send_appendentries(me1, node) EXCEPT !.asserts = @ \cup asserted]

\* The callback asked about a node whatever change is in flight.
sufficient_logs_asked_during_change(me, node, r) ==
    /\ ~raft_node_is_voting(me, node)
    /\ raft_get_current_idx(me) <= r.current_idx + 1
    /\ ~me.nodes[node].has_sufficient_logs

\* raft_recv_appendentries_response: the node_has_sufficient_logs callback is
\* called for the node; h.sufficient is what it returns.
sufficient_logs_asked(me, node, r) ==
    /\ ~raft_node_is_voting(me, node)
    /\ ~raft_voting_change_is_in_progress(me)
    /\ raft_get_current_idx(me) <= r.current_idx + 1
    /\ ~me.nodes[node].has_sufficient_logs

\* raft_recv_appendentries_response: the follower accepted.
appendentries_response_succeeded(me, node, r, h) ==
    LET me1 == IF sufficient_logs_asked(me, node, r) /\ h.sufficient = 0
               THEN [me EXCEPT !.nodes[node].has_sufficient_logs = TRUE]
               ELSE me
        me2 == [me1 EXCEPT !.nodes[node].next_idx = r.current_idx + 1,
                           !.nodes[node].match_idx = r.current_idx]
        me3 == appendentries_response_commit(me2, r.current_idx)
    IN  IF r.current_idx <= me.nodes[node].match_idx THEN Ok(me1)
        ELSE AssertThat(IF me3.nodes[node].next_idx <= raft_get_current_idx(me3)
                        THEN raft_send_appendentries(me3, node)
                        ELSE Ok(me3),
                        r.current_idx <= raft_get_current_idx(me),
                        "recv_appendentries_response")

\* raft_recv_appendentries_response: node is the id of the sender, which the
\* host looks up in the peer table.
raft_recv_appendentries_response(me, node, r, now, h) ==
    IF ~HasNode(me, node) THEN Failed(me, -1)
    ELSE IF ~raft_is_leader(me) THEN Failed(me, RAFT_ERR_NOT_LEADER)
    ELSE IF me.current_term < r.term
    THEN LET t == raft_set_current_term(me, r.term, h)
         IN  IF t.e # 0 THEN Failed(t.me, t.e)
             ELSE Ok([raft_become_follower(t.me, now, h) EXCEPT !.leader_id = None])
    ELSE IF me.current_term # r.term THEN Ok(me)
    ELSE LET me1 == [me EXCEPT !.nodes[node].lease = r.lease]
         IN  IF r.success = 0 THEN appendentries_response_failed(me1, node, r)
             ELSE appendentries_response_succeeded(me1, node, r, h)

\* ---------------------------------------------------------- InstallSnapshot
\* raft_recv_installsnapshot: node is the id of the sender.  A request that is
\* refused for its term leaves r->lease as the caller's memory had it: h.lease.
raft_recv_installsnapshot(me, node, is, now, h) ==
    LET Resp(m, complete, lease) ==
            [term |-> m.current_term, last_idx |-> is.last_idx,
             complete |-> complete, lease |-> lease]
        t == raft_set_current_term(me, is.term, h)
        me1 == IF ~raft_is_follower(t.me) THEN raft_become_follower(t.me, now, h) ELSE t.me
        me2 == [me1 EXCEPT !.leader_id = node, !.election_timer = now]
        lease == now + ElectionTimeout
        et == raft_get_entry_term(me2, is.last_idx)
    IN  IF is.term < me.current_term THEN [r |-> Ok(me), resp |-> Resp(me, 0, h.lease)]
        ELSE IF t.e # 0 THEN [r |-> Failed(t.me, t.e), resp |-> Resp(me, 0, h.lease)]
        ELSE IF is.last_idx <= raft_get_commit_idx(me2)
        THEN [r |-> Ok(me2), resp |-> Resp(me2, 1, lease)]
        ELSE IF et.got /\ et.term = is.last_term
        THEN [r |-> Ok(raft_set_commit_idx(me2, is.last_idx)), resp |-> Resp(me2, 1, lease)]
        ELSE IF h.installsnapshot < 0
        THEN [r |-> Failed(me2, h.installsnapshot), resp |-> Resp(me2, 0, lease)]
        ELSE [r |-> Ok(me2),
              resp |-> Resp(me2, IF h.installsnapshot = 1 THEN 1 ELSE 0, lease)]

\* raft_recv_installsnapshot_response: node is the id of the sender.
raft_recv_installsnapshot_response(me, node, r, now, h) ==
    IF ~HasNode(me, node) THEN Failed(me, -1)
    ELSE IF ~raft_is_leader(me) THEN Failed(me, RAFT_ERR_NOT_LEADER)
    ELSE IF me.current_term < r.term
    THEN LET t == raft_set_current_term(me, r.term, h)
         IN  IF t.e # 0 THEN Failed(t.me, t.e)
             ELSE Ok([raft_become_follower(t.me, now, h) EXCEPT !.leader_id = None])
    ELSE IF me.current_term # r.term THEN Ok(me)
    ELSE LET me1 == [me EXCEPT !.nodes[node].lease = r.lease]
             me2 == IF r.complete = 1 /\ me1.nodes[node].match_idx < r.last_idx
                    THEN [me1 EXCEPT !.nodes[node].match_idx = r.last_idx,
                                     !.nodes[node].next_idx = r.last_idx + 1]
                    ELSE me1
         IN  IF h.installsnapshot_response # 0 THEN Failed(me1, h.installsnapshot_response)
             ELSE IF me2.nodes[node].next_idx <= raft_get_current_idx(me2)
             THEN raft_send_appendentries(me2, node)
             ELSE Ok(me2)

\* ------------------------------------------------------------ client entries
\* A check of configuration changes that lets the server change itself.
cfg_change_is_valid_for_self(me, ety) ==
    LET node_id == ety.node
        node == HasNode(me, node_id)
    IN  CASE ety.type \in {"ADD_NONVOTING_NODE", "ADD_NODE"} -> ~node
          [] ety.type \in {"DEMOTE_NODE", "REMOVE_NODE"} ->
                node /\ raft_node_is_voting(me, node_id)
          [] ety.type \in {"PROMOTE_NODE", "REMOVE_NONVOTING_NODE"} ->
                node /\ ~raft_node_is_voting(me, node_id)
          [] OTHER -> TRUE

\* __cfg_change_is_valid
cfg_change_is_valid(me, ety) ==
    LET node_id == ety.node
        node == HasNode(me, node_id)
    IN  IF node_id = me.node_id THEN FALSE
        ELSE CASE ety.type \in {"ADD_NONVOTING_NODE", "ADD_NODE"} -> ~node
               [] ety.type \in {"DEMOTE_NODE", "REMOVE_NODE"} ->
                    node /\ raft_node_is_voting(me, node_id)
               [] ety.type \in {"PROMOTE_NODE", "REMOVE_NONVOTING_NODE"} ->
                    node /\ ~raft_node_is_voting(me, node_id)
               [] OTHER -> TRUE

\* raft_recv_entry: the code the entry is refused with, 0 if it
\* is not refused.
recv_entry_refused(me, ety) ==
    IF ~raft_is_leader(me) THEN RAFT_ERR_NOT_LEADER
    ELSE IF ~raft_entry_is_cfg_change(ety) THEN 0
    ELSE IF raft_snapshot_is_in_progress(me) THEN RAFT_ERR_SNAPSHOT_IN_PROGRESS
    ELSE IF raft_entry_is_voting_cfg_change(ety) /\ raft_voting_change_is_in_progress(me)
    THEN RAFT_ERR_ONE_VOTING_CHANGE_ONLY
    ELSE IF ~cfg_change_is_valid(me, ety) THEN RAFT_ERR_INVALID_CFG_CHANGE
    ELSE 0

recv_entry_commit_always(me) == raft_set_commit_idx(me, raft_get_current_idx(me))

\* raft_recv_entry: the only voting node considers the entry committed.
recv_entry_commit(me) ==
    IF 1 = raft_get_num_voting_nodes(me)
    THEN raft_set_commit_idx(me, raft_get_current_idx(me)) ELSE me

\* raft_recv_entry: the entry is in the log.
recv_entry_appended(me, ety) ==
    With(SendEach(Ok(me),
                  SeqOf({id \in DOMAIN me.nodes :
                           /\ ~raft_is_self(me, id)
                           /\ raft_node_is_voting(me, id)
                           /\ me.nodes[id].next_idx = raft_get_current_idx(me)}),
                  raft_send_appendentries), LAMBDA sent :
    With(recv_entry_commit(me), LAMBDA me1 :
        [r |-> [sent EXCEPT !.me =
                   IF raft_entry_is_voting_cfg_change(ety)
                   THEN [me1 EXCEPT !.voting_cfg_change_log_idx = raft_get_current_idx(me1)]
                   ELSE me1],
         resp |-> [id |-> ety.id, idx |-> raft_get_current_idx(me),
                   term |-> me.current_term]]))

\* raft_recv_entry: the call's result r and the response resp.
raft_recv_entry(me, ety, now, h) ==
    IF recv_entry_refused(me, ety) # 0
    THEN [r |-> Failed(me, recv_entry_refused(me, ety)),
          resp |-> [id |-> 0, idx |-> 0, term |-> 0]]
    ELSE With(raft_append_entries(me, << [ety EXCEPT !.term = me.current_term] >>, now, h),
              LAMBDA a :
            IF a.r.crash \/ a.r.e # 0
            THEN [r |-> a.r, resp |-> [id |-> 0, idx |-> 0, term |-> 0]]
            ELSE With(recv_entry_appended(a.r.me, ety), LAMBDA q :
                    [r |-> AssertThat(Then(a.r, LAMBDA m : q.r), a.n = 1, "recv_entry"),
                     resp |-> q.resp]))

\* ---------------------------------------------------------------- snapshots
\* raft_begin_snapshot
raft_begin_snapshot(me, idx, h) ==
    IF raft_get_commit_idx(me) < idx THEN Failed(me, -1)
    ELSE IF ~has_idx(me.log, idx) THEN Failed(me, -1)
    ELSE With(raft_apply_all(me, h), LAMBDA a :
            IF a.e # 0 THEN a
            ELSE AssertThat(
                     [a EXCEPT !.me = [raft_set_snapshot_metadata(
                                           a.me, log_get_at_idx(me.log, idx).term, idx)
                                         EXCEPT !.snapshot_in_progress = TRUE]],
                     raft_get_commit_idx(a.me) = a.me.last_applied_idx, "begin_snapshot"))

\* An end of snapshot that polls the log to the commit index.
raft_end_snapshot_to_commit(me, h) ==
    IF ~me.snapshot_in_progress \/ me.snapshot_last_idx = 0 THEN Failed(me, -1)
    ELSE With(log_poll(me.log, raft_get_commit_idx(me), h.poll), LAMBDA p :
            IF p.e # 0 THEN Failed([me EXCEPT !.log = p.log], p.e)
            ELSE Ok([me EXCEPT !.log = p.log, !.snapshot_in_progress = FALSE]))

\* raft_end_snapshot
raft_end_snapshot(me, h) ==
    IF ~me.snapshot_in_progress \/ me.snapshot_last_idx = 0 THEN Failed(me, -1)
    ELSE With(log_poll(me.log, me.snapshot_last_idx, h.poll), LAMBDA p :
            IF p.e # 0 THEN Failed([me EXCEPT !.log = p.log], p.e)
            ELSE Ok([me EXCEPT !.log = p.log, !.snapshot_in_progress = FALSE]))

\* raft_begin_load_snapshot
raft_begin_load_snapshot(me, last_included_term, last_included_index, now, h) ==
    IF last_included_index = -1 THEN Failed(me, -1)
    ELSE IF /\ last_included_term = me.snapshot_last_term
            /\ last_included_index = me.snapshot_last_idx
    THEN Failed(me, RAFT_ERR_SNAPSHOT_ALREADY_LOADED)
    ELSE IF last_included_index <= raft_get_commit_idx(me) THEN Failed(me, -1)
    ELSE With(log_load_from_snapshot(me.log, last_included_index, last_included_term,
                                     h.offer, h.nomem), LAMBDA l :
         With(OfferRuns(Ok([me EXCEPT !.log = l.log]), l.runs, 1, now), LAMBDA o :
            AssertThat(
                [o EXCEPT !.me = [raft_set_snapshot_metadata(
                                      raft_set_commit_idx(o.me, last_included_index),
                                      last_included_term, last_included_index)
                                    EXCEPT !.last_applied_idx = last_included_index,
                                           !.nodes = << >>],
                          !.e = 0],
                l.e = 0, "log_load_from_snapshot")))

\* raft_end_load_snapshot
raft_end_load_snapshot(me) ==
    Ok([me EXCEPT !.nodes = [id \in DOMAIN me.nodes |->
                               IF me.nodes[id].voting
                               THEN [me.nodes[id] EXCEPT !.has_sufficient_logs = TRUE]
                               ELSE me.nodes[id]]])

\* raft_add_node and raft_add_non_voting_node: the host fills the peer table.
raft_add_node(me, id, is_self, voting, now) ==
    Ok(raft_add_node_internal(me, id, is_self, voting, now))

\* ============================================================ state machine
\* srv[i] is the server with node id i; crashed holds the servers whose process
\* is gone; net is the set of messages in flight; now is the clock all servers
\* read; last tells which applylog callbacks the last call made.
VARIABLES srv, crashed, net, now, last, elected

vars == << srv, crashed, net, now, last, elected >>

\* The servers of the cluster.
Server == {1, 2, 3}

\* The server the host drives with inputs of its own choosing.
Driven == CHOOSE i \in Server : \A j \in Server : i <= j

\* The host creates server i at time 0 and fills its peer table.
RECURSIVE AddNodes(_, _, _)
AddNodes(me, ids, self) ==
    IF ids = << >> THEN me
    ELSE AddNodes(raft_add_node(me, Head(ids), Head(ids) = self, TRUE, 0).me, Tail(ids), self)

InitServer(i) == AddNodes(raft_new(0, ElectionTimeout), SeqOf(Server), i)

NoCall == [i |-> 0, before |-> 0, applied |-> << >>]

Init ==
    /\ srv = [i \in Server |-> InitServer(i)]
    /\ crashed = {}
    /\ net = {}
    /\ now = 0
    /\ last = NoCall
    /\ elected = {}

\* The state of a server is within the bounds of the exploration.
InBounds(me, maxTerm, maxIdx) ==
    /\ me.current_term <= maxTerm
    /\ raft_get_current_idx(me) <= maxIdx
    /\ \A n \in DOMAIN me.nodes : me.nodes[n].next_idx >= 0 - maxIdx

\* Server i has made a call with the result r.  last keeps the applylog
\* callbacks of the call, and the last_applied_idx they started from; elected
\* keeps the terms in which the server has been seen as leader.
Stepped(i, r, maxTerm, maxIdx) ==
    /\ i \notin crashed
    /\ InBounds(r.me, maxTerm, maxIdx)
    /\ srv' = IF r.crash THEN srv ELSE [srv EXCEPT ![i] = r.me]
    /\ crashed' = IF r.crash THEN crashed \cup {i} ELSE crashed
    /\ last' = IF r.applied = << >> THEN NoCall
               ELSE [i |-> i, before |-> srv[i].last_applied_idx, applied |-> r.applied]
    /\ elected' = IF ~r.crash /\ r.me.state = "LEADER"
                  THEN elected \cup {<< i, r.me.current_term >>} ELSE elected

Called(i, op, r) == Stepped(i, r, MaxTerm, MaxIdx)

\* The clock advances.
TickTo(maxTime) ==
    /\ now < maxTime
    /\ now' = now + 1
    /\ last' = NoCall
    /\ UNCHANGED << srv, crashed, net, elected >>

Tick == TickTo(MaxTime)

\* ------------------------------------------------- the host drives one server
\* The host calls the entry points of the server Driven with inputs of its own
\* choosing, and leaves the messages the server sends undelivered.
Undelivered == UNCHANGED << net, now >>

Terms == 0..MaxTerm
Idxs == 0..MaxIdx
Peers == Server \ {Driven}
Sender == CHOOSE i \in Peers : \A j \in Peers : i <= j
EntryIds == {1, 2}
FarLease == MaxTime + ElectionTimeout

TermFails == [HostOk EXCEPT !.persist_term = -1]
VoteFails == [HostOk EXCEPT !.persist_vote = -1]
HostApply == {[HostOk EXCEPT !.applylog = al]
                 : al \in {CbAll, [k |-> 0, e |-> RAFT_ERR_SHUTDOWN], [k |-> 1, e |-> -1]}}

HostPeriodic(hs) ==
    \E h \in hs :
        /\ Called(Driven, "periodic", raft_periodic(srv[Driven], now, h))
        /\ Undelivered

HostRecvRequestVote(vrs, hs) ==
    \E vr \in vrs, h \in hs :
        /\ Called(Driven, "recv_requestvote",
                  raft_recv_requestvote(srv[Driven], vr, now, h).r)
        /\ Undelivered

HostRecvRequestVoteResponse(rs, hs) ==
    \E r \in rs, h \in hs :
        /\ Called(Driven, "recv_requestvote_response",
                  raft_recv_requestvote_response(srv[Driven], Sender, r, now, h))
        /\ Undelivered

HostRecvAppendEntries(aes, hs) ==
    \E ae \in aes, h \in hs :
        /\ Called(Driven, "recv_appendentries",
                  raft_recv_appendentries(srv[Driven], Sender, ae, now, h).r)
        /\ Undelivered

HostRecvAppendEntriesResponse(rs, hs) ==
    \E r \in rs, h \in hs :
        /\ Called(Driven, "recv_appendentries_response",
                  raft_recv_appendentries_response(srv[Driven], Sender, r, now, h))
        /\ Undelivered

HostRecvInstallSnapshot(iss, hs) ==
    \E is \in iss, h \in hs :
        /\ Called(Driven, "recv_installsnapshot",
                  raft_recv_installsnapshot(srv[Driven], Sender, is, now, h).r)
        /\ Undelivered

HostRecvInstallSnapshotResponse(rs, hs) ==
    \E r \in rs, h \in hs :
        /\ Called(Driven, "recv_installsnapshot_response",
                  raft_recv_installsnapshot_response(srv[Driven], Sender, r, now, h))
        /\ Undelivered

HostRecvEntry(etys) ==
    \E ety \in etys :
        /\ Called(Driven, "recv_entry", raft_recv_entry(srv[Driven], ety, now, HostOk).r)
        /\ Undelivered

HostBeginSnapshot(idxs, hs) ==
    \E idx \in idxs, h \in hs :
        /\ Called(Driven, "begin_snapshot", raft_begin_snapshot(srv[Driven], idx, h))
        /\ Undelivered

HostEndSnapshot ==
    /\ Called(Driven, "end_snapshot", raft_end_snapshot(srv[Driven], HostOk))
    /\ Undelivered

\* The host loads a snapshot: raft_begin_load_snapshot, raft_add_node for the
\* nodes of the snapshot's configuration, raft_end_load_snapshot.
load_snapshot(me, term, idx, members, at) ==
    With(raft_begin_load_snapshot(me, term, idx, at, HostOk), LAMBDA b :
        IF b.e # 0 THEN b
        ELSE Then([b EXCEPT !.me = AddNodes(b.me, SeqOf(members), me.node_id)],
                  LAMBDA m : raft_end_load_snapshot(m)))

HostLoadSnapshot(snaps) ==
    \E sn \in snaps :
        /\ Called(Driven, "load_snapshot",
                  load_snapshot(srv[Driven], sn[1], sn[2], sn[3], now))
        /\ Undelivered

\* ---- the inputs that exercise the log, the commit index and the snapshots
EtyA == Entry(1, 1, "NORMAL", 0)
EtyB == Entry(2, 2, "NORMAL", 0)
LogAppendEntries ==
    {[term |-> t, prev_log_idx |-> p[1], prev_log_term |-> p[2], leader_commit |-> lc,
      entries |-> es]
        : t \in 1..MaxTerm, p \in {<< 0, 0 >>, << 1, 1 >>, << 1, 2 >>}, lc \in {0, MaxIdx},
          es \in {<< >>, << EtyA >>, << EtyB >>, << EtyA, EtyB >>}}
LogRequestVotes ==
    {[term |-> MaxTerm, candidate_id |-> Sender, last_log_idx |-> MaxIdx,
      last_log_term |-> MaxTerm, prevote |-> FALSE]}
LogVoteResponses ==
    {[term |-> srv[Driven].current_term, vote_granted |-> RAFT_REQUESTVOTE_ERR_GRANTED,
      prevote |-> pv] : pv \in BOOLEAN}
LogAppendEntriesResponses ==
    {[term |-> t, success |-> ok, current_idx |-> ci, first_idx |-> 1, lease |-> FarLease]
        : t \in 1..MaxTerm, ok \in {0, 1}, ci \in Idxs}
LogInstallSnapshots ==
    {[term |-> t, last_idx |-> it, last_term |-> it] : t \in 1..MaxTerm, it \in {1, 2}}
LogInstallSnapshotResponses ==
    {[term |-> srv[Driven].current_term, last_idx |-> li, complete |-> c, lease |-> FarLease]
        : li \in 1..MaxIdx, c \in {0, 1}}
LogEntries == {Entry(0, id, "NORMAL", 0) : id \in EntryIds}
LogSnapshots == {<< 1, 1, Server >>, << 2, 2, Server >>, << 1, 1, {Driven} >>}

Next ==
    \/ Tick
    \/ HostPeriodic(HostApply)
    \/ HostRecvRequestVote(LogRequestVotes, {HostOk})
    \/ HostRecvRequestVoteResponse(LogVoteResponses, {HostOk})
    \/ HostRecvAppendEntries(LogAppendEntries, {HostOk})
    \/ HostRecvAppendEntriesResponse(LogAppendEntriesResponses, {HostOk})
    \/ HostRecvInstallSnapshot(LogInstallSnapshots, {[HostOk EXCEPT !.installsnapshot = 1]})
    \/ HostRecvInstallSnapshotResponse(LogInstallSnapshotResponses, {HostOk})
    \/ HostRecvEntry(LogEntries)
    \/ HostBeginSnapshot(1..MaxIdx, HostApply)
    \/ HostEndSnapshot
    \/ HostLoadSnapshot(LogSnapshots)

Spec == Init /\ [][Next]_vars

\* ---- the inputs that exercise the terms and the votes
CandidateLogs == {<< 0, 0 >>, << MaxIdx, MaxTerm >>}
VoteRequestVotes ==
    {[term |-> t, candidate_id |-> c, last_log_idx |-> l[1], last_log_term |-> l[2],
      prevote |-> pv] : t \in Terms, c \in Peers, l \in CandidateLogs, pv \in BOOLEAN}
VoteVoteResponses ==
    {[term |-> t, vote_granted |-> g, prevote |-> pv]
        : t \in Terms, pv \in BOOLEAN,
          g \in {RAFT_REQUESTVOTE_ERR_GRANTED, RAFT_REQUESTVOTE_ERR_NOT_GRANTED,
                 RAFT_REQUESTVOTE_ERR_UNKNOWN_NODE}}
VoteAppendEntries ==
    {[term |-> t, prev_log_idx |-> 0, prev_log_term |-> 0, leader_commit |-> lc,
      entries |-> es] : t \in 1..MaxTerm, lc \in {0, 1}, es \in {<< >>, << EtyA >>}}
VoteAppendEntriesResponses ==
    {[term |-> t, success |-> ok, current_idx |-> ci, first_idx |-> 1, lease |-> l]
        : t \in Terms, ok \in {0, 1}, ci \in {0, 1}, l \in {0, FarLease}}
VoteInstallSnapshots ==
    {[term |-> t, last_idx |-> 1, last_term |-> 1] : t \in 1..MaxTerm}
VoteInstallSnapshotResponses ==
    {[term |-> t, last_idx |-> 1, complete |-> c, lease |-> FarLease]
        : t \in Terms, c \in {0, 1}}

NextVote ==
    \/ Tick
    \/ HostPeriodic({HostOk, TermFails, VoteFails})
    \/ HostRecvRequestVote(VoteRequestVotes, {HostOk, TermFails, VoteFails})
    \/ HostRecvRequestVoteResponse(VoteVoteResponses, {HostOk, TermFails, VoteFails})
    \/ HostRecvAppendEntries(VoteAppendEntries, {HostOk, TermFails})
    \/ HostRecvAppendEntriesResponse(VoteAppendEntriesResponses, {HostOk, TermFails})
    \/ HostRecvInstallSnapshot(VoteInstallSnapshots, {HostOk, TermFails})
    \/ HostRecvInstallSnapshotResponse(VoteInstallSnapshotResponses, {HostOk, TermFails})
    \/ HostRecvEntry({Entry(0, 1, "NORMAL", 0)})
    \/ HostBeginSnapshot({1}, {HostOk})
    \/ HostEndSnapshot
    \/ HostLoadSnapshot({<< 1, 1, Server >>, << 2, 2, Server >>})

SpecVote == Init /\ [][NextVote]_vars

\* ------------------------------------------------------------- the cluster
\* The hosts of a cluster pass the messages the servers send to one another.
\* A run c of the cluster says which links carry messages (what is sent over
\* another link is lost), which hosts call raft_periodic, which entries the
\* clients submit, where snapshots are taken, what the hosts' callbacks leave
\* (hs), whether a delivered message may stay in the network to be delivered
\* again (dup), and the bounds of the exploration.
Range(f) == {f[k] : k \in DOMAIN f}

Sendable(out, c) == {m \in Range(out) : << m.src, m.dst >> \in c.links}

\* The messages consumed leave the network and some of the messages out join
\* it: the others are lost.  A message stays in the network until a delivery
\* takes it out, so it is delayed and overtaken at will.
Transmit(consumed, out, c) ==
    \E sent \in SUBSET Sendable(out, c) :
        /\ Cardinality((net \ consumed) \cup sent) <= c.maxMsgs
        /\ net' = (net \ consumed) \cup sent

\* The host of server i has made a call with the result r and has sent what
\* the server asked it to send, and the messages resp of its own.
Hosted(i, r, consumed, resp, c) ==
    /\ Stepped(i, r, c.maxTerm, c.maxIdx)
    /\ Transmit(consumed, IF r.crash THEN << >> ELSE r.out \o resp, c)
    /\ UNCHANGED now

\* The host answers a request when the handler has returned 0.
Answer(r, mtype, m, body) ==
    IF r.crash \/ r.e # 0 THEN << >> ELSE << Msg(mtype, m.dst, m.src, body) >>

\* raft_recv_installsnapshot: the handler reaches the host's
\* recv_installsnapshot callback.
installsnapshot_calls_back(me, is) ==
    /\ ~(is.term < me.current_term)
    /\ ~(is.last_idx <= raft_get_commit_idx(me))
    /\ ~(/\ raft_get_entry_term(me, is.last_idx).got
         /\ raft_get_entry_term(me, is.last_idx).term = is.last_term)

\* The host's recv_installsnapshot callback loads the snapshot the message
\* describes, with the cluster's configuration, and returns 1 when it has.
recv_installsnapshot_loading(me, node, is, at, h) ==
    With(raft_recv_installsnapshot(me, node, is, at, [h EXCEPT !.installsnapshot = 1]),
         LAMBDA q :
        IF q.r.crash \/ q.r.e # 0 \/ ~installsnapshot_calls_back(me, is) THEN q
        ELSE With(load_snapshot(q.r.me, is.last_term, is.last_idx, Server, at), LAMBDA l :
                IF l.crash \/ l.e # 0
                THEN [r |-> q.r, resp |-> [q.resp EXCEPT !.complete = 0]]
                ELSE [r |-> Then(q.r, LAMBDA x : l), resp |-> q.resp]))

\* The host of m.dst hands the message m to the handler of its type.
Handle(me, m, at, h) ==
    CASE m.mtype = "rv" ->
            With(raft_recv_requestvote(me, m, at, h), LAMBDA q :
                [r |-> q.r, resp |-> Answer(q.r, "rvr", m, q.resp)])
      [] m.mtype = "rvr" ->
            [r |-> raft_recv_requestvote_response(me, m.src, m, at, h), resp |-> << >>]
      [] m.mtype = "ae" ->
            With(raft_recv_appendentries(me, m.src, m, at, h), LAMBDA q :
                [r |-> q.r, resp |-> Answer(q.r, "aer", m, q.resp)])
      [] m.mtype = "aer" ->
            [r |-> raft_recv_appendentries_response(me, m.src, m, at, h), resp |-> << >>]
      [] m.mtype = "is" ->
            With(recv_installsnapshot_loading(me, m.src, m, at, h), LAMBDA q :
                [r |-> q.r, resp |-> Answer(q.r, "isr", m, q.resp)])
      [] m.mtype = "isr" ->
            [r |-> raft_recv_installsnapshot_response(me, m.src, m, at, h), resp |-> << >>]

Delivered(m, q, keep, c) == Hosted(m.dst, q.r, IF keep THEN {} ELSE {m}, q.resp, c)

\* The handler of an AppendEntries or InstallSnapshot request refused for its
\* term is the one that reads what the host's memory held.
StaleRequest(me, m) == m.mtype \in {"ae", "is"} /\ m.term < me.current_term

Deliver(c) ==
    \E m \in net, keep \in c.dup :
        \E h \in {x \in c.hs : x = HostOk \/ StaleRequest(srv[m.dst], m)} :
            Delivered(m, Handle(srv[m.dst], m, now, h), keep, c)

Periodic(c) ==
    \E i \in c.periodic : Hosted(i, raft_periodic(srv[i], now, HostOk), {}, << >>, c)

ClientEntry(c) ==
    \E i \in Server, ety \in c.entries :
        Hosted(i, raft_recv_entry(srv[i], ety, now, HostOk).r, {}, << >>, c)

BeginSnapshot(c) ==
    \E i \in c.snapshots, idx \in 1..c.maxIdx :
        Hosted(i, raft_begin_snapshot(srv[i], idx, HostOk), {}, << >>, c)

EndSnapshot(c) ==
    \E i \in c.snapshots : Hosted(i, raft_end_snapshot(srv[i], HostOk), {}, << >>, c)

AllLinks == {l \in Server \X Server : l[1] # l[2]}

\* ---- elections: every link is up, messages are lost, delayed and delivered
\* ---- twice, and the hosts of two of the servers call raft_periodic
ElectionMaxTerm == 2
ElectionMaxTime == 2
ElectionMaxMsgs == 2
Candidates == {i \in Server : \E j \in Server : i < j}
Election ==
    [links |-> AllLinks, periodic |-> Candidates, entries |-> {}, snapshots |-> {},
     hs |-> {HostOk}, dup |-> BOOLEAN,
     maxTerm |-> ElectionMaxTerm, maxIdx |-> 0, maxTime |-> ElectionMaxTime,
     maxMsgs |-> ElectionMaxMsgs]

TickElection == TickTo(ElectionMaxTime)

NextElection ==
    \/ TickElection
    \/ Periodic(Election)
    \/ Deliver(Election)

SpecElection == Init /\ [][NextElection]_vars

\* ---- replication: clients submit entries, the first server takes snapshots,
\* ---- and the network holds one message at a time
ClusterMaxTerm == 2
ClusterMaxTime == 2
ClusterMaxIdx == 2
ClusterMaxMsgs == 1
Cluster ==
    [links |-> AllLinks, periodic |-> Candidates, entries |-> {Entry(0, 2, "NORMAL", 0)},
     snapshots |-> {Driven}, hs |-> {HostOk}, dup |-> BOOLEAN,
     maxTerm |-> ClusterMaxTerm, maxIdx |-> ClusterMaxIdx, maxTime |-> ClusterMaxTime,
     maxMsgs |-> ClusterMaxMsgs]

TickCluster == TickTo(ClusterMaxTime)

NextCluster ==
    \/ TickCluster
    \/ Periodic(Cluster)
    \/ Deliver(Cluster)
    \/ ClientEntry(Cluster)
    \/ BeginSnapshot(Cluster)
    \/ EndSnapshot(Cluster)

SpecCluster == Init /\ [][NextCluster]_vars

\* ---- membership changes: the host drives one server with the entries of two
\* ---- leaders, each with one voting change at most, and its log_pop callback
\* ---- may fail
CfgMaxTerm == 3
CfgMaxTime == 2
CfgMaxIdx == 2
Cfg ==
    [links |-> {}, periodic |-> {Driven}, snapshots |-> {}, hs |-> {HostOk}, dup |-> {FALSE},
     entries |-> {Entry(0, 3, "DEMOTE_NODE", 3), Entry(0, 3, "PROMOTE_NODE", 3),
                  Entry(0, 3, "NORMAL", 0)},
     maxTerm |-> CfgMaxTerm, maxIdx |-> CfgMaxIdx, maxTime |-> CfgMaxTime, maxMsgs |-> 0]

PopFails == [HostOk EXCEPT !.pop = [k |-> 0, e |-> -1]]

\* What the leader of the first term sends after a client has asked it to demote
\* the third server, and what the leader of the second term sends after a client
\* has given it an entry.
CfgAppendEntries ==
    {[term |-> ety.term, prev_log_idx |-> 0, prev_log_term |-> 0, leader_commit |-> lc,
      entries |-> << ety >>]
        : ety \in {Entry(1, 1, "DEMOTE_NODE", 3), Entry(2, 2, "NORMAL", 0)}, lc \in {0, 1}}

CfgVoteResponses ==
    {[term |-> srv[Driven].current_term, vote_granted |-> RAFT_REQUESTVOTE_ERR_GRANTED,
      prevote |-> pv] : pv \in BOOLEAN}

CfgAppendEntriesResponses ==
    {[term |-> srv[Driven].current_term, success |-> 1, current_idx |-> ci, first_idx |-> 1,
      lease |-> CfgMaxTime + ElectionTimeout] : ci \in 1..CfgMaxIdx}

TickCfg == TickTo(CfgMaxTime)

\* The leader of a term in which the server was elected is the server itself.
CfgRecvAppendEntries ==
    \E ae \in CfgAppendEntries, h \in {HostOk, PopFails} :
        /\ << Driven, ae.term >> \notin elected
        /\ Hosted(Driven, raft_recv_appendentries(srv[Driven], Sender, ae, now, h).r,
                  {}, << >>, Cfg)

CfgRecvRequestVoteResponse ==
    \E r \in CfgVoteResponses :
        Hosted(Driven, raft_recv_requestvote_response(srv[Driven], Sender, r, now, HostOk),
               {}, << >>, Cfg)

CfgRecvAppendEntriesResponse ==
    \E r \in CfgAppendEntriesResponses :
        Hosted(Driven, raft_recv_appendentries_response(srv[Driven], Sender, r, now, HostOk),
               {}, << >>, Cfg)

NextCfg ==
    \/ TickCfg
    \/ Periodic(Cfg)
    \/ ClientEntry(Cfg)
    \/ CfgRecvAppendEntries
    \/ CfgRecvRequestVoteResponse
    \/ CfgRecvAppendEntriesResponse

SpecCfg == Init /\ [][NextCfg]_vars

\* ---- configuration changes and snapshots: the host of the driven server also
\* ---- takes snapshots of its log
CfgBeginSnapshot ==
    \E idx \in 1..CfgMaxIdx :
        Hosted(Driven, raft_begin_snapshot(srv[Driven], idx, HostOk), {}, << >>, Cfg)

CfgEndSnapshot == Hosted(Driven, raft_end_snapshot(srv[Driven], HostOk), {}, << >>, Cfg)

NextEntry ==
    \/ NextCfg
    \/ CfgBeginSnapshot
    \/ CfgEndSnapshot

SpecEntry == Init /\ [][NextEntry]_vars

\* ---- a node that catches up: the clients of the driven server demote, remove,
\* ---- add and promote the third server, both peers answer the leader's
\* ---- AppendEntries, and the host's node_has_sufficient_logs returns 0 or fails
CatchUpMaxIdx == 3
Learner == CHOOSE i \in Server : \A j \in Server : j <= i
CatchUp ==
    [Cfg EXCEPT !.entries = {Entry(0, 3, type, Learner)
                                : type \in {"DEMOTE_NODE", "PROMOTE_NODE",
                                            "REMOVE_NONVOTING_NODE", "ADD_NONVOTING_NODE"}},
                !.maxIdx = CatchUpMaxIdx]

CatchUpHosts == {HostOk, [HostOk EXCEPT !.sufficient = -1]}

CatchUpAppendEntriesResponses ==
    {[term |-> srv[Driven].current_term, success |-> 1, current_idx |-> ci, first_idx |-> 1,
      lease |-> CfgMaxTime + ElectionTimeout] : ci \in 0..CatchUpMaxIdx}

CatchUpRecvRequestVoteResponse ==
    \E r \in CfgVoteResponses :
        Hosted(Driven, raft_recv_requestvote_response(srv[Driven], Sender, r, now, HostOk),
               {}, << >>, CatchUp)

CatchUpRecvAppendEntriesResponse ==
    \E r \in CatchUpAppendEntriesResponses, node \in Peers, h \in CatchUpHosts :
        /\ r.current_idx <= raft_get_current_idx(srv[Driven])
        /\ Hosted(Driven, raft_recv_appendentries_response(srv[Driven], node, r, now, h),
                  {}, << >>, CatchUp)

NextCatchUp ==
    \/ TickCfg
    \/ Periodic(CatchUp)
    \/ ClientEntry(CatchUp)
    \/ CatchUpRecvRequestVoteResponse
    \/ CatchUpRecvAppendEntriesResponse

SpecCatchUp == Init /\ [][NextCatchUp]_vars

\* The same, while the clock keeps advancing.
SpecCatchUpFair == SpecCatchUp /\ WF_vars(TickCfg)

\* ---- leases: the first and the third server stand for election and reach
\* ---- one another through the second only; the response to a request refused
\* ---- for its term carries the lease the host's memory held
LeaseMaxTerm == 3
LeaseMaxTime == 4
LeaseMaxMsgs == 2
Middle == CHOOSE i \in Server : (\E j \in Server : j < i) /\ (\E j \in Server : i < j)
MiddleLinks == {l \in AllLinks : Middle \in {l[1], l[2]}}
StaleLeases == {0, LeaseMaxTime + ElectionTimeout}
Lease ==
    [links |-> MiddleLinks, periodic |-> Server \ {Middle}, entries |-> {}, snapshots |-> {},
     hs |-> {[HostOk EXCEPT !.lease = l] : l \in StaleLeases}, dup |-> {FALSE},
     maxTerm |-> LeaseMaxTerm, maxIdx |-> 0, maxTime |-> LeaseMaxTime,
     maxMsgs |-> LeaseMaxMsgs]

TickLease == TickTo(LeaseMaxTime)

NextLease ==
    \/ TickLease
    \/ Periodic(Lease)
    \/ Deliver(Lease)

SpecLease == Init /\ [][NextLease]_vars

\* ---- prevotes: the host drives one server with its timer, with elections it
\* ---- starts itself and with responses to the server's vote requests; a
\* ---- snapshot may leave the server as the only voting node
PrevoteMaxTerm == 3
PrevoteMaxTime == 3
PrevoteMaxIdx == 1
Prevote ==
    [links |-> {}, periodic |-> {Driven}, snapshots |-> {}, hs |-> {HostOk}, dup |-> {FALSE},
     entries |-> {}, maxTerm |-> PrevoteMaxTerm, maxIdx |-> PrevoteMaxIdx,
     maxTime |-> PrevoteMaxTime, maxMsgs |-> 0]

\* The host of the driven server has made a call with the result r, and the
\* messages the server sent stay with the host.
Drive(r, c) == Hosted(Driven, r, {}, << >>, c)

PrevoteVoteResponses ==
    {[term |-> t, vote_granted |-> g, prevote |-> pv]
        : t \in {srv[Driven].current_term, srv[Driven].current_term + 1}, pv \in BOOLEAN,
          g \in {RAFT_REQUESTVOTE_ERR_GRANTED, RAFT_REQUESTVOTE_ERR_NOT_GRANTED}}

TickPrevote == TickTo(PrevoteMaxTime)

PrevoteElectionStart == Drive(raft_election_start(srv[Driven], now, HostOk), Prevote)

PrevoteRecvRequestVoteResponse ==
    \E r \in PrevoteVoteResponses, node \in Peers :
        Drive(raft_recv_requestvote_response(srv[Driven], node, r, now, HostOk), Prevote)

PrevoteLoadSnapshot == Drive(load_snapshot(srv[Driven], 1, 1, {Driven}, now), Prevote)

\* Heartbeats of a leader of the current or the next term.
PrevoteAppendEntries ==
    {[term |-> t, prev_log_idx |-> 0, prev_log_term |-> 0, leader_commit |-> 0,
      entries |-> << >>]
        : t \in {Max(1, srv[Driven].current_term), srv[Driven].current_term + 1}}

PrevoteRecvAppendEntries ==
    \E ae \in PrevoteAppendEntries, node \in Peers :
        /\ << Driven, ae.term >> \notin elected
        /\ Drive(raft_recv_appendentries(srv[Driven], node, ae, now, HostOk).r, Prevote)

NextPrevote ==
    \/ TickPrevote
    \/ Periodic(Prevote)
    \/ PrevoteElectionStart
    \/ PrevoteRecvRequestVoteResponse
    \/ PrevoteLoadSnapshot
    \/ PrevoteRecvAppendEntries

SpecPrevote == Init /\ [][NextPrevote]_vars

\* ---- the log by itself: the host of a log appends, deletes, polls and loads
\* ---- snapshots, and its callbacks take all the entries or a part of them
RingMaxIdx == 13
RingMaxBatch == 2

RingLog == srv[Driven].log

\* The entry appended at index idx carries idx as its term, and the id the
\* host gives the batch.
RingBatches(ids) ==
    {[j \in 1..len |-> Entry(log_get_current_idx(RingLog) + j, id, "NORMAL", 0)]
        : len \in 1..RingMaxBatch, id \in ids}

RingCbs == {CbAll, [k |-> 1, e |-> -1]}

RingIdxs == 0..(RingMaxIdx + 1)

RingSnapshots == {1, RingMaxIdx}

\* The log of the driven server is the log a call has left.
RingBecomes(log) ==
    /\ log_get_current_idx(log) <= RingMaxIdx
    /\ srv' = [srv EXCEPT ![Driven].log = log]
    /\ UNCHANGED << crashed, net, now, last, elected >>

RingAppend ==
    \E ety \in RingBatches({1}), cb \in RingCbs, nomem \in BOOLEAN :
        RingBecomes(log_append(RingLog, ety, cb, nomem).log)

RingDelete ==
    \E idx \in RingIdxs, cb \in RingCbs : RingBecomes(log_delete(RingLog, idx, cb, ZeroEntry).log)

RingPoll ==
    \E idx \in RingIdxs, cb \in RingCbs : RingBecomes(log_poll(RingLog, idx, cb).log)

RingLoadFromSnapshot ==
    \E idx \in RingSnapshots, cb \in RingCbs :
        RingBecomes(log_load_from_snapshot(RingLog, idx, idx, cb, FALSE).log)

NextRing ==
    \/ RingAppend
    \/ RingDelete
    \/ RingPoll
    \/ RingLoadFromSnapshot

SpecRing == Init /\ [][NextRing]_vars

\* ================================================================== claims
Held(me, idx) == has_idx(me.log, idx)
SameEntry(a, b) == a.term = b.term /\ a.id = b.id

\* C1: no two distinct servers have been leader in the same term.
ElectionSafety ==
    \A a \in elected, b \in elected : a[2] = b[2] => a[1] = b[1]

\* A server has been elected in a term in which another server stood as a
\* candidate with its own vote.
ElectedAgainstRival ==
    \E i \in Server, j \in Server :
        /\ i # j
        /\ srv[i].state = "LEADER"
        /\ srv[j].state = "CANDIDATE"
        /\ ~srv[j].prevote
        /\ srv[j].current_term = srv[i].current_term

\* C2: two servers that both have commit_idx >= idx and both hold idx in their
\* logs hold entries with the same term and the same id there.
BothCommitted(i, j, idx) ==
    /\ idx <= srv[i].commit_idx /\ Held(srv[i], idx)
    /\ idx <= srv[j].commit_idx /\ Held(srv[j], idx)

VotingChangesInFlight(me) ==
    {idx \in 1..raft_get_current_idx(me) :
        /\ raft_get_commit_idx(me) < idx
        /\ Held(me, idx)
        /\ raft_entry_is_voting_cfg_change(log_get_at_idx(me.log, idx))}

OneVotingChangeInFlight ==
    \A i \in Server :
        /\ Cardinality(VotingChangesInFlight(srv[i])) <= 1
        /\ (raft_is_leader(srv[i]) /\ VotingChangesInFlight(srv[i]) # {})
              => recv_entry_refused(srv[i], Entry(0, 3, "PROMOTE_NODE", 3))
                     = RAFT_ERR_ONE_VOTING_CHANGE_ONLY

\* C3: while its current_term stays the same, a server that has recorded a
\* real vote for a node id never records a vote for another one.
OneVotePerTerm ==
    [][\A i \in Server :
          (srv[i].current_term = srv'[i].current_term /\ srv[i].voted_for # None)
              => srv'[i].voted_for = srv[i].voted_for]_vars

\* A vote for a peer is on record in a term the server has reached.
VotedForPeer ==
    /\ srv[Driven].voted_for \in Peers
    /\ srv[Driven].current_term = MaxTerm
    /\ srv[Driven].state = "FOLLOWER"

\* C4: no entry point lowers a server's current_term.
TermNeverDecreases ==
    [][\A i \in Server : srv[i].current_term <= srv'[i].current_term]_vars

\* The server has raised its term twice, each time as it became a candidate.
TermRaised ==
    /\ srv[Driven].current_term = MaxTerm
    /\ srv[Driven].state = "CANDIDATE"
    /\ srv[Driven].voted_for = Driven

\* C5: an entry at an index at or below commit_idx is neither deleted nor
\* replaced: after any step the log holds the index with the same term and id,
\* unless the index has gone below the base of the log with a snapshot.
CommittedEntryKept ==
    [][\A i \in Server, idx \in 1..MaxIdx :
          (idx <= srv[i].commit_idx /\ Held(srv[i], idx))
              => \/ idx <= log_get_base(srv'[i].log)
                 \/ /\ Held(srv'[i], idx)
                    /\ SameEntry(log_get_at_idx(srv[i].log, idx),
                                 log_get_at_idx(srv'[i].log, idx))]_vars

\* A committed entry is held below an entry that is not committed.
CommittedBelowTail ==
    /\ srv[Driven].commit_idx = 1
    /\ Held(srv[Driven], 1)
    /\ Held(srv[Driven], MaxIdx)

IndexOrder ==
    \A i \in Server :
        /\ srv[i].snapshot_last_idx <= srv[i].last_applied_idx
        /\ srv[i].last_applied_idx <= srv[i].commit_idx
        /\ log_get_base(srv[i].log) <= srv[i].last_applied_idx

\* C8: the applylog callbacks of a call come with the indices that follow the
\* last_applied_idx the call began with, one by one, each with the entry the
\* log stores there, and end at a last_applied_idx that is at most commit_idx;
\* last_applied_idx changes with these callbacks or with the load of a snapshot.
AppliedInOrder ==
    last.i # 0 =>
        /\ \A k \in 1..Len(last.applied) :
              /\ last.applied[k].idx = last.before + k
              /\ Held(srv[last.i], last.before + k)
              /\ last.applied[k].ety = log_get_at_idx(srv[last.i].log, last.before + k)
        /\ srv[last.i].last_applied_idx = last.before + Len(last.applied)
        /\ srv[last.i].last_applied_idx <= srv[last.i].commit_idx

AppliedOnlyByCallback ==
    \A i \in Server :
        srv'[i].last_applied_idx # srv[i].last_applied_idx =>
            \/ last'.i = i /\ last'.before = srv[i].last_applied_idx
            \/ /\ srv'[i].last_applied_idx = srv'[i].snapshot_last_idx
               /\ srv'[i].last_applied_idx = srv'[i].commit_idx
               /\ srv[i].commit_idx < srv'[i].commit_idx

ApplyConsecutive == []AppliedInOrder /\ [][AppliedOnlyByCallback]_vars

\* One call has made two applylog callbacks.
AppliedTwo == last.i = Driven /\ Len(last.applied) = 2

\* C10: when raft_has_majority_leases is true on a server, the server is the
\* leader and no other server is the leader of a greater term; it is what
\* has_majority_leases answers without the grace period.
LeaseReadSafety ==
    \A l \in Server :
        /\ raft_has_majority_leases(srv[l], now)
              => /\ raft_is_leader(srv[l])
                 /\ has_majority_leases(srv[l], now, FALSE)
                 /\ \A o \in Server \ {l} :
                       ~(raft_is_leader(srv[o]) /\ srv[l].current_term < srv[o].current_term)
        /\ ~raft_is_leader(srv[l]) => ~raft_has_majority_leases(srv[l], now)

\* C11: a server that is not a majority by itself keeps current_term and
\* voted_for when its election timeout fires or an election is started, and
\* current_term rises by candidacy only by one, from a prevote candidacy in
\* which the prevote received makes a majority (or the server is a majority by
\* itself).
AloneIsMajority(me) == raft_votes_is_majority(raft_get_num_voting_nodes(me), 1)

KeepsTermAndVote(me, r) ==
    /\ ~r.crash
    /\ r.me.current_term = me.current_term
    /\ r.me.voted_for = me.voted_for

TimeoutKeepsTerm ==
    \A i \in Server :
        ~AloneIsMajority(srv[i])
            => /\ KeepsTermAndVote(srv[i], raft_periodic(srv[i], now, HostOk))
               /\ KeepsTermAndVote(srv[i], raft_become_candidate(srv[i], now, HostOk))

TermRisesByPrevotes ==
    \A i \in Server :
        (srv'[i].current_term # srv[i].current_term /\ srv'[i].state # "FOLLOWER")
            => /\ srv'[i].current_term = srv[i].current_term + 1
               /\ srv'[i].voted_for = i
               /\ \/ AloneIsMajority(srv[i])
                  \/ /\ raft_is_candidate(srv[i]) /\ srv[i].prevote
                     /\ raft_votes_is_majority(raft_get_num_voting_nodes(srv[i]),
                                               raft_get_nvotes_for_me(srv[i]) + 1)

PrevoteGuardsTerm == []TimeoutKeepsTerm /\ [][TermRisesByPrevotes]_vars

\* The server has stood for election a second time, after its first prevote
\* candidacy had raised its term.
PrevotedTwice ==
    /\ raft_is_candidate(srv[Driven]) /\ srv[Driven].prevote
    /\ srv[Driven].current_term = 1
    /\ srv[Driven].voted_for = Driven
    /\ srv[Driven].election_timer = PrevoteMaxTime
    /\ ~AloneIsMajority(srv[Driven])

\* C12: while the server knows a leader other than itself and less than the
\* election timeout has passed since it reset its election timer, or while it
\* started less than the election timeout ago and this is not its first start,
\* starting an election returns RAFT_ERR_MIGHT_VIOLATE_LEASE, sends nothing and
\* leaves the whole server state as it is.
LeaseMightBeHeld(me) ==
    \/ me.leader_id \notin {None, me.node_id} /\ now - me.election_timer < ElectionTimeout
    \/ ~me.first_start /\ now - me.start_time < ElectionTimeout

Refused(me, r) ==
    /\ ~r.crash
    /\ r.e = RAFT_ERR_MIGHT_VIOLATE_LEASE
    /\ r.out = << >>
    /\ r.me = me

LeaseBlocksElection ==
    \A i \in Server :
        LeaseMightBeHeld(srv[i])
            => /\ Refused(srv[i], raft_election_start(srv[i], now, HostOk))
               /\ Refused(srv[i], raft_become_candidate(srv[i], now, HostOk))

\* A follower of term 2 has heard from its leader at this very time, an election
\* timeout or more after its start.
LeaderHeardLate ==
    /\ raft_is_follower(srv[Driven])
    /\ srv[Driven].leader_id = Sender
    /\ srv[Driven].current_term = 2
    /\ srv[Driven].election_timer = now
    /\ now - srv[Driven].start_time >= ElectionTimeout
    /\ LeaseMightBeHeld(srv[Driven])

\* C13: a RequestVote that reaches a server which is not leader and has no lease
\* to respect is answered GRANTED exactly when its term is not behind, the
\* server (for a real vote, once a higher term is adopted) has voted for nobody
\* else, the candidate's (last_log_term, last_log_idx) is not behind the
\* server's own, and (for a real vote) the vote is persisted; a candidate whose
\* log ends as the server's own does is granted.
VoteHosts == {HostOk, VoteFails}

VotedAfterAdopting(me, vr) ==
    IF raft_get_current_term(me) < vr.term THEN None ELSE me.voted_for

LogNotBehind(me, vr) ==
    \/ raft_get_last_log_term(me) < vr.last_log_term
    \/ /\ vr.last_log_term = raft_get_last_log_term(me)
       /\ raft_get_current_idx(me) <= vr.last_log_idx

DeservesVote(me, vr, h) ==
    /\ raft_get_current_term(me) <= vr.term
    /\ vr.prevote \/ VotedAfterAdopting(me, vr) \in {None, vr.candidate_id}
    /\ LogNotBehind(me, vr)
    /\ vr.prevote \/ h.persist_vote = 0

Granted(me, vr, h) ==
    raft_recv_requestvote(me, vr, now, h).resp.vote_granted = RAFT_REQUESTVOTE_ERR_GRANTED

Replicas(me, point) ==
    1 + Cardinality({id \in DOMAIN me.nodes :
                        id # me.node_id /\ me.nodes[id].voting /\ point <= me.nodes[id].match_idx})

CommitsByReplicas(me, node, r) ==
    LET res == raft_recv_appendentries_response(me, node, r, now, HostOk)
        P == raft_get_commit_idx(res.me)
    IN  raft_get_commit_idx(me) < P
            => /\ raft_is_leader(me) /\ raft_is_leader(res.me)
               /\ P = r.current_idx
               /\ has_idx(res.me.log, P)
               /\ log_get_at_idx(res.me.log, P).term = res.me.current_term
               /\ res.me.current_term = me.current_term
               /\ raft_get_num_voting_nodes(res.me) < 2 * Replicas(res.me, P)

CommitOnlyCurrentTerm ==
    \A i \in Server, node \in Peers, r \in LogAppendEntriesResponses :
        CommitsByReplicas(srv[i], node, r)

\* A leader of term 2 has committed its entry of term 2, and with it the entry
\* of term 1 below, which a peer had acknowledged before without a commit.
CommittedByCurrentTerm ==
    LET me == srv[Driven]
    IN  /\ raft_is_leader(me) /\ me.current_term = 2
        /\ has_idx(me.log, 1) /\ log_get_at_idx(me.log, 1).term = 1
        /\ has_idx(me.log, 2) /\ log_get_at_idx(me.log, 2).term = 2
        /\ raft_get_commit_idx(me) = 2
        /\ raft_get_num_voting_nodes(me) = 3
        /\ HasNode(me, Sender) /\ me.nodes[Sender].match_idx = 2

\* C15: the log is a sequence of entries with a base offset: current_idx is
\* base + count, the entry read at an index in base + 1 .. base + count is the
\* one appended at that index, no entry is read at any other index, and append,
\* delete, poll and load_from_snapshot act on the array as they act on the
\* sequence: they add the entries the callback takes at the end, take entries
\* off the end, take entries off the front, or leave the sentinel alone.
NoEntry == << >>

GetAt(log, idx) ==
    LET run == log_get_from_idx(log, idx)
    IN  IF run = << >> THEN NoEntry ELSE run[1]

\* The sequence a log stands for.
Abstract(log) ==
    [base |-> log_get_base(log),
     seq |-> [j \in 1..log_count(log) |-> GetAt(log, log_get_base(log) + j)]]

\* The number of entries out of n that a callback takes.
Taken(cb, n) == IF cb.e = 0 THEN n ELSE Min(cb.k, n)

SeqAppend(a, ety, cb, nomem) ==
    IF nomem /\ Len(a.seq) + Len(ety) > RingLog.size THEN a
    ELSE [a EXCEPT !.seq = @ \o SubSeq(ety, 1, Taken(cb, Len(ety)))]

SeqDelete(a, idx, cb) ==
    IF ~(a.base < idx /\ idx <= a.base + Len(a.seq)) THEN a
    ELSE [a EXCEPT !.seq = SubSeq(@, 1, Len(@) - Taken(cb, a.base + Len(@) - idx + 1))]

SeqPoll(a, idx, cb) ==
    IF ~(a.base < idx /\ idx <= a.base + Len(a.seq)) THEN a
    ELSE LET k == Taken(cb, idx - a.base)
         IN  [base |-> a.base + k, seq |-> SubSeq(a.seq, k + 1, Len(a.seq))]

SeqLoadFromSnapshot(a, idx, term, cb) ==
    IF Taken(cb, 1) = 1 THEN [base |-> idx - 1, seq |-> << Entry(term, 1, "SNAPSHOT", 0) >>]
    ELSE [base |-> 0, seq |-> << >>]

ReadsAsSequence(log) ==
    /\ log_get_current_idx(log) = log_get_base(log) + log_count(log)
    /\ \A idx \in RingIdxs :
        IF log_get_base(log) < idx /\ idx <= log_get_base(log) + log_count(log)
        THEN GetAt(log, idx) # NoEntry /\ GetAt(log, idx).term = idx
        ELSE GetAt(log, idx) = NoEntry

LogRefinesSequence ==
    /\ ReadsAsSequence(RingLog)
    /\ \A ety \in RingBatches(EntryIds), cb \in RingCbs, nomem \in BOOLEAN :
        Abstract(log_append(RingLog, ety, cb, nomem).log)
            = SeqAppend(Abstract(RingLog), ety, cb, nomem)
    /\ \A idx \in RingIdxs, cb \in RingCbs :
        /\ Abstract(log_delete(RingLog, idx, cb, ZeroEntry).log)
            = SeqDelete(Abstract(RingLog), idx, cb)
        /\ Abstract(log_poll(RingLog, idx, cb).log) = SeqPoll(Abstract(RingLog), idx, cb)
    /\ \A idx \in RingSnapshots, cb \in RingCbs :
        Abstract(log_load_from_snapshot(RingLog, idx, idx, cb, FALSE).log)
            = SeqLoadFromSnapshot(Abstract(RingLog), idx, idx, cb)

\* The array has doubled while its entries lay around its end.
DoubledAround ==
    /\ RingLog.size = 2 * INITIAL_CAPACITY
    /\ RingLog.front = 0
    /\ log_get_base(RingLog) = 2
    /\ log_count(RingLog) = INITIAL_CAPACITY + 1
    /\ GetAt(RingLog, RingMaxIdx).term = RingMaxIdx

\* C16: appending a batch of entries at index idx and deleting from idx again
\* leaves the entries below idx as they were, current_idx at idx - 1, and the
\* peer table with the node ids and the voting flags it had before.
PeerTable(me) == [id \in DOMAIN me.nodes |-> me.nodes[id].voting]

\* The configuration changes that fit node id in the peer table of me.
FittingChanges(me, id) ==
    IF ~HasNode(me, id) THEN {"ADD_NODE", "ADD_NONVOTING_NODE"}
    ELSE IF raft_node_is_voting(me, id) THEN {"DEMOTE_NODE", "REMOVE_NODE"}
    ELSE {"PROMOTE_NODE", "REMOVE_NONVOTING_NODE"}

RoundTripBatches(me) ==
    LET id == CHOOSE n \in NodeIds : \A m \in NodeIds : m <= n
        changes == {Entry(me.current_term, 2, type, id) : type \in FittingChanges(me, id)}
    IN  {<< c >> : c \in changes}
            \cup {<< Entry(me.current_term, 1, "NORMAL", 0), c >> : c \in changes}

\* What the deletion may read before the first slot of the array.
RoundTripJunk == {ZeroEntry, Entry(1, 2, "DEMOTE_NODE", 1)}

RoundTrip(me, ety, h) ==
    LET idx == raft_get_current_idx(me) + 1
        a == raft_append_entries(me, ety, now, h).r
        d == raft_delete_entry_from_idx(a.me, idx, now, h)
    IN  (~a.crash /\ a.e = 0 /\ raft_get_current_idx(a.me) = idx + Len(ety) - 1)
            => /\ ~d.crash /\ d.e = 0
               /\ raft_get_current_idx(d.me) = idx - 1
               /\ \A i \in 1..(idx - 1) :
                    has_idx(me.log, i)
                        => has_idx(d.me.log, i)
                           /\ log_get_at_idx(d.me.log, i) = log_get_at_idx(me.log, i)
               /\ PeerTable(d.me) = PeerTable(me)

AppendDeleteRoundTrip ==
    \A i \in Server \ crashed, junk \in RoundTripJunk :
        \A ety \in RoundTripBatches(srv[i]) :
            RoundTrip(srv[i], ety, [HostOk EXCEPT !.junk = junk])

\* C17: raft_begin_load_snapshot(T, I) with I above commit_idx and (T, I) not
\* the snapshot the server has, followed by raft_end_load_snapshot, leaves a log
\* of one entry, current_idx = commit_idx = last_applied_idx = I, the snapshot
\* metadata (T, I), no peers, and T as the term at index I.
SnapshotTerms == 0..(MaxTerm + 1)
SnapshotIdxs == 1..(MaxIdx + 2)

Loaded(me, T, I) ==
    LET b == raft_begin_load_snapshot(me, T, I, now, HostOk)
        r == raft_end_load_snapshot(b.me)
    IN  /\ ~b.crash /\ b.e = 0 /\ b.asserts = {}
        /\ ~r.crash /\ r.e = 0
        /\ log_count(r.me.log) = 1
        /\ raft_get_current_idx(r.me) = I
        /\ raft_get_commit_idx(r.me) = I
        /\ r.me.last_applied_idx = I
        /\ r.me.snapshot_last_term = T /\ r.me.snapshot_last_idx = I
        /\ DOMAIN r.me.nodes = {}
        /\ raft_get_entry_term(r.me, I) = [got |-> TRUE, term |-> T]

PollHosts == {HostOk, [HostOk EXCEPT !.poll = [k |-> 1, e |-> -1]]}

Compacted(me, r) ==
    /\ ~r.crash
    /\ log_get_base(r.me.log) = r.me.snapshot_last_idx
    /\ r.me.snapshot_last_idx = me.snapshot_last_idx
    /\ r.me.snapshot_last_idx <= raft_get_commit_idx(r.me)
    /\ ~r.me.snapshot_in_progress
    /\ raft_get_current_idx(r.me) = Max(raft_get_current_idx(me), me.snapshot_last_idx)
    /\ \A idx \in (me.snapshot_last_idx + 1)..raft_get_current_idx(me) :
        /\ has_idx(me.log, idx)
        /\ has_idx(r.me.log, idx)
        /\ log_get_at_idx(r.me.log, idx) = log_get_at_idx(me.log, idx)

EndSnapshotCompacts ==
    \A i \in Server \ crashed, h \in PollHosts :
        LET r == raft_end_snapshot(srv[i], h)
        IN  /\ r.e = 0 => Compacted(srv[i], r)
            /\ ~srv[i].snapshot_in_progress => (r.e # 0 /\ ~r.crash /\ r.me = srv[i])

\* A snapshot of index 1 has ended on a log of two entries: the second entry is
\* what the log holds.
SnapshotEndedBelowTail ==
    LET me == srv[Driven]
    IN  /\ ~me.snapshot_in_progress
        /\ me.snapshot_last_idx = 1
        /\ log_get_base(me.log) = 1
        /\ log_count(me.log) = 1
        /\ log_get_at_idx(me.log, 2).type = "NORMAL"

\* C19: a real vote whose persist_vote fails is answered not granted, returns
\* the error and leaves voted_for as the adoption of the request's term left
\* it; a call of a message handler whose persist_term fails returns the error
\* and leaves current_term and the role as they were; and a prevote candidate
\* whose graduation meets a failing persist_term or persist_vote is afterwards
\* neither a voted candidate nor a leader.
\* The calls of the six message handlers with the messages of the inputs, and
\* the result of such a call under the host callbacks h.
HandlerCalls ==
    {[op |-> "rv", m |-> m] : m \in VoteRequestVotes}
        \cup {[op |-> "rvr", m |-> m] : m \in VoteVoteResponses}
        \cup {[op |-> "ae", m |-> m] : m \in VoteAppendEntries}
        \cup {[op |-> "aer", m |-> m] : m \in VoteAppendEntriesResponses}
        \cup {[op |-> "is", m |-> m] : m \in VoteInstallSnapshots}
        \cup {[op |-> "isr", m |-> m] : m \in VoteInstallSnapshotResponses}

HandlerResult(me, c, h) ==
    CASE c.op = "rv" -> raft_recv_requestvote(me, c.m, now, h).r
      [] c.op = "rvr" -> raft_recv_requestvote_response(me, Sender, c.m, now, h)
      [] c.op = "ae" -> raft_recv_appendentries(me, Sender, c.m, now, h).r
      [] c.op = "aer" -> raft_recv_appendentries_response(me, Sender, c.m, now, h)
      [] c.op = "is" -> raft_recv_installsnapshot(me, Sender, c.m, now, h).r
      [] c.op = "isr" -> raft_recv_installsnapshot_response(me, Sender, c.m, now, h)

VoteNotAheadOfStore(me) ==
    \A vr \in {v \in VoteRequestVotes : ~v.prevote} :
        Granted(me, vr, HostOk)
            => LET res == raft_recv_requestvote(me, vr, now, VoteFails)
               IN  /\ res.r.e = VoteFails.persist_vote
                   /\ res.resp.vote_granted = RAFT_REQUESTVOTE_ERR_NOT_GRANTED
                   /\ res.r.me.voted_for = VotedAfterAdopting(me, vr)
                   /\ res.r.me.current_term = Max(me.current_term, vr.term)

\* A call that would change the term changes neither the term nor the role
\* when persist_term fails, and returns the error.
TermNotAheadOfStore(me) ==
    \A c \in HandlerCalls :
        LET ok == HandlerResult(me, c, HostOk)
            res == HandlerResult(me, c, TermFails)
        IN  /\ ~res.crash
            /\ res.me.current_term = me.current_term
            /\ ok.me.current_term # me.current_term
                => /\ res.e = TermFails.persist_term
                   /\ res.me.state = me.state
                   /\ res.me.voted_for = me.voted_for

GraduationStopped(me) ==
    \A r \in VoteVoteResponses, h \in {TermFails, VoteFails} :
        LET ok == raft_recv_requestvote_response(me, Sender, r, now, HostOk)
            res == raft_recv_requestvote_response(me, Sender, r, now, h)
        IN  (raft_is_candidate(me) /\ me.prevote /\ raft_is_candidate(ok.me) /\ ~ok.me.prevote)
                => /\ res.e # 0
                   /\ ~raft_is_leader(res.me)
                   /\ raft_is_candidate(res.me) /\ res.me.prevote
                   /\ res.me.voted_for # res.me.node_id

NotAheadOfStore ==
    \A i \in Server \ crashed :
        /\ VoteNotAheadOfStore(srv[i])
        /\ TermNotAheadOfStore(srv[i])
        /\ GraduationStopped(srv[i])

\* A prevote candidate has raised its term and could not store its vote for
\* itself: it is still a prevote candidate, and no vote counts for it.
GraduationFailed ==
    LET me == srv[Driven]
    IN  /\ raft_is_candidate(me) /\ me.prevote
        /\ me.current_term = 1
        /\ me.voted_for = None
        /\ raft_get_nvotes_for_me(me) = 0

\* C20: raft_recv_entry refuses an entry with RAFT_ERR_NOT_LEADER when the
\* server is not leader; otherwise a configuration change with
\* RAFT_ERR_SNAPSHOT_IN_PROGRESS while a snapshot is in progress, otherwise a
\* voting change with RAFT_ERR_ONE_VOTING_CHANGE_ONLY while the server has one in
\* flight, otherwise a change that does not fit the peer table with
\* RAFT_ERR_INVALID_CFG_CHANGE; a refusal leaves the server as it was and sends
\* nothing.
\* The node ids of the peer table and one that no peer table holds.
EntryTargets == NodeIds \cup {Cardinality(NodeIds) + 1}

SubmittedEntries ==
    {Entry(0, 3, type, node) : type \in CfgChangeTypes \cup {"NORMAL"}, node \in EntryTargets}

IsChange(ety) == ety.type \in CfgChangeTypes

IsVotingChange(ety) == ety.type \in {"ADD_NODE", "PROMOTE_NODE", "DEMOTE_NODE", "REMOVE_NODE"}

\* The change does not fit the peer table of me.
Misfit(me, ety) ==
    LET present == ety.node \in DOMAIN me.nodes
        voting == present /\ me.nodes[ety.node].voting
    IN  \/ ety.node = me.node_id
        \/ ety.type \in {"ADD_NODE", "ADD_NONVOTING_NODE"} /\ present
        \/ ety.type \in {"REMOVE_NODE", "DEMOTE_NODE"} /\ (~present \/ ~voting)
        \/ ety.type \in {"PROMOTE_NODE", "REMOVE_NONVOTING_NODE"} /\ (~present \/ voting)

Refusal(me, ety) ==
    IF me.state # "LEADER" THEN RAFT_ERR_NOT_LEADER
    ELSE IF ~IsChange(ety) THEN 0
    ELSE IF me.snapshot_in_progress THEN RAFT_ERR_SNAPSHOT_IN_PROGRESS
    ELSE IF IsVotingChange(ety) /\ me.voting_cfg_change_log_idx # None
    THEN RAFT_ERR_ONE_VOTING_CHANGE_ONLY
    ELSE IF Misfit(me, ety) THEN RAFT_ERR_INVALID_CFG_CHANGE
    ELSE 0

UnknownRequestVotes ==
    {[term |-> t, candidate_id |-> c, last_log_idx |-> l[1], last_log_term |-> l[2],
      prevote |-> pv]
        : t \in 0..PrevoteMaxTerm, c \in Peers,
          l \in {<< 0, 0 >>, << PrevoteMaxIdx, 1 >>}, pv \in BOOLEAN}

UnknownHosts == {HostOk, TermFails, VoteFails}

VoteAnswer(me, vr, h) == raft_recv_requestvote(me, vr, now, h).resp.vote_granted

UnknownCandidateToldSo ==
    \A i \in Server, vr \in UnknownRequestVotes, h \in UnknownHosts :
        ~HasNode(srv[i], vr.candidate_id)
            => VoteAnswer(srv[i], vr, h) = RAFT_REQUESTVOTE_ERR_UNKNOWN_NODE

\* C21: a RequestVote is answered UNKNOWN_NODE exactly when the peer table does
\* not hold the candidate and the request is refused for its own sake: the
\* receiver is not leader and has no lease to respect, it could store a higher
\* term of the request, and the request's term is behind, or the receiver has
\* voted for another node (real vote), or the candidate's log is behind.  An
\* unknown candidate with a log that is not behind is granted the vote.
RefusedForItself(me, vr) ==
    \/ vr.term < raft_get_current_term(me)
    \/ ~vr.prevote /\ VotedAfterAdopting(me, vr) \notin {None, vr.candidate_id}
    \/ ~LogNotBehind(me, vr)

ToldUnknown(me, vr, h) ==
    /\ ~HasNode(me, vr.candidate_id)
    /\ ~raft_is_leader(me)
    /\ ~raft_lease_granted(me, vr.candidate_id, now)
    /\ ~(raft_get_current_term(me) < vr.term /\ h.persist_term # 0)
    /\ RefusedForItself(me, vr)

UnknownNodeWhenRefused ==
    \A i \in Server, vr \in UnknownRequestVotes, h \in UnknownHosts :
        VoteAnswer(srv[i], vr, h) = RAFT_REQUESTVOTE_ERR_UNKNOWN_NODE
            <=> ToldUnknown(srv[i], vr, h)

\* The server has loaded a snapshot whose configuration holds no other node: it
\* tells a candidate with an empty log that it does not know it, and grants its
\* vote to an unknown candidate whose log ends where its own does.
UnknownCandidateRefused ==
    LET me == srv[Driven]
        vr == [term |-> PrevoteMaxTerm, candidate_id |-> Sender, last_log_idx |-> 0,
               last_log_term |-> 0, prevote |-> FALSE]
        eq == [vr EXCEPT !.last_log_idx = PrevoteMaxIdx, !.last_log_term = 1]
    IN  /\ ~HasNode(me, Sender)
        /\ raft_is_follower(me)
        /\ raft_get_current_idx(me) = 1
        /\ VoteAnswer(me, vr, HostOk) = RAFT_REQUESTVOTE_ERR_UNKNOWN_NODE
        /\ VoteAnswer(me, eq, HostOk) = RAFT_REQUESTVOTE_ERR_GRANTED

\* C22: when raft_recv_appendentries returns 0 with success = 1 for a request
\* with prev_log_idx = p and n entries, the log holds at every index p + 1 + i
\* above its base an entry with the term of the i-th entry sent, current_idx is
\* at least p + n, the entries below the first index at which the log held an
\* entry of another term are the entries it held before (kept, not rewritten),
\* from that index on the log holds the entries sent and ends with them, and
\* without such an index nothing is deleted and only entries past the old end
\* are new.
SentEntries == {Entry(t, 4, "NORMAL", 0) : t \in {1, 2}}

SentAppendEntries ==
    {[term |-> t, prev_log_idx |-> p[1], prev_log_term |-> p[2], leader_commit |-> lc,
      entries |-> es]
        : t \in 1..CfgMaxTerm, p \in {<< 0, 0 >>} \cup ((1..CfgMaxIdx) \X (1..2)),
          lc \in {0, CfgMaxIdx},
          es \in {<< >>} \cup {<< a >> : a \in SentEntries}
                 \cup {<< a, b >> : a \in SentEntries, b \in SentEntries}}

OfferFails == [HostOk EXCEPT !.offer = [k |-> 1, e |-> -1]]

AppendHosts == {HostOk, PopFails, OfferFails}

Accepted(res) == ~res.r.crash /\ res.r.e = 0 /\ res.resp.success = 1

\* The indices at which the log holds an entry of another term than the request.
Conflicts(me, ae) ==
    {idx \in (ae.prev_log_idx + 1)..(ae.prev_log_idx + Len(ae.entries)) :
        /\ Held(me, idx)
        /\ log_get_at_idx(me.log, idx).term # ae.entries[idx - ae.prev_log_idx].term}

Lowest(S) == CHOOSE x \in S : \A y \in S : x <= y

HoldsAsSent(me, after, ae) ==
    LET p == ae.prev_log_idx
        n == Len(ae.entries)
        old == raft_get_current_idx(me)
        first == IF Conflicts(me, ae) = {} THEN old + 1 ELSE Lowest(Conflicts(me, ae))
    IN  /\ log_get_base(after.log) = log_get_base(me.log)
        /\ \A idx \in (p + 1)..(p + n) :
              log_get_base(after.log) < idx
                  => /\ Held(after, idx)
                     /\ log_get_at_idx(after.log, idx).term = ae.entries[idx - p].term
        /\ p + n <= raft_get_current_idx(after)
        /\ \A idx \in 1..old :
              (Held(me, idx) /\ idx < first)
                  => /\ Held(after, idx)
                     /\ log_get_at_idx(after.log, idx) = log_get_at_idx(me.log, idx)
        /\ raft_get_current_idx(after) = IF first <= old THEN p + n ELSE Max(old, p + n)
        /\ \A idx \in first..raft_get_current_idx(after) :
              log_get_at_idx(after.log, idx) = ae.entries[idx - p]

AppendedAsSent ==
    \A ae \in SentAppendEntries, h \in AppendHosts :
        LET res == raft_recv_appendentries(srv[Driven], Sender, ae, now, h)
        IN  Accepted(res) => HoldsAsSent(srv[Driven], res.r.me, ae)

\* A leader of term 1 holds two entries of its own, none of them committed; a
\* request of term 2 with an entry of term 1 and an entry of term 2 keeps the
\* first as it is and puts the entry sent in the place of the second.
SecondEntryReplaced ==
    LET me == srv[Driven]
        ae == [term |-> 2, prev_log_idx |-> 0, prev_log_term |-> 0, leader_commit |-> 0,
               entries |-> << Entry(1, 4, "NORMAL", 0), Entry(2, 4, "NORMAL", 0) >>]
        res == raft_recv_appendentries(me, Sender, ae, now, HostOk)
    IN  /\ raft_get_current_idx(me) = 2 /\ log_get_base(me.log) = 0
        /\ raft_get_commit_idx(me) = 0
        /\ log_get_at_idx(me.log, 1).term = 1
        /\ log_get_at_idx(me.log, 2).term = 1
        /\ Accepted(res)
        /\ Conflicts(me, ae) = {2}
        /\ log_get_at_idx(res.r.me.log, 1) = log_get_at_idx(me.log, 1)
        /\ log_get_at_idx(res.r.me.log, 2) = Entry(2, 4, "NORMAL", 0)

\* C23: a request whose term is not behind and that contradicts the log at an
\* index up to commit_idx (in prev_log_term, or in the term of one of its
\* entries) makes raft_recv_appendentries return RAFT_ERR_SHUTDOWN with the log,
\* commit_idx and last_applied_idx as they were; a prev_log_term that
\* contradicts the log above commit_idx is answered success = 0 and the log
\* loses its entries from prev_log_idx on (all of them unless log_pop refuses).
ConflictHosts == {HostOk, PopFails}

PrevMismatch(me, ae) ==
    /\ 0 < ae.prev_log_idx
    /\ raft_get_entry_term(me, ae.prev_log_idx).got
    /\ raft_get_entry_term(me, ae.prev_log_idx).term # ae.prev_log_term

EntryMismatches(me, ae) ==
    {idx \in (ae.prev_log_idx + 1)..(ae.prev_log_idx + Len(ae.entries)) :
        /\ raft_get_entry_term(me, idx).got
        /\ raft_get_entry_term(me, idx).term # ae.entries[idx - ae.prev_log_idx].term}

ContradictsCommitted(me, ae) ==
    \/ PrevMismatch(me, ae) /\ ae.prev_log_idx <= raft_get_commit_idx(me)
    \/ \E idx \in EntryMismatches(me, ae) : idx <= raft_get_commit_idx(me)

ShutDown(me, res) ==
    /\ ~res.r.crash
    /\ res.r.e = RAFT_ERR_SHUTDOWN
    /\ res.r.me.log = me.log
    /\ res.r.me.commit_idx = me.commit_idx
    /\ res.r.me.last_applied_idx = me.last_applied_idx

SuffixDeleted(me, res, ae, h) ==
    LET after == res.r.me
    IN  /\ ~res.r.crash
        /\ res.resp.success = 0
        /\ log_get_base(after.log) = log_get_base(me.log)
        /\ \A idx \in 1..(ae.prev_log_idx - 1) :
              Held(me, idx) => /\ Held(after, idx)
                               /\ log_get_at_idx(after.log, idx) = log_get_at_idx(me.log, idx)
        /\ after.commit_idx = me.commit_idx
        /\ IF h = HostOk
           THEN res.r.e = 0 /\ raft_get_current_idx(after) = ae.prev_log_idx - 1
           ELSE res.r.e = h.pop.e /\ after.log = me.log

CommittedNotOverwritten ==
    \A ae \in SentAppendEntries, h \in ConflictHosts :
        LET me == srv[Driven]
            res == raft_recv_appendentries(me, Sender, ae, now, h)
        IN  raft_get_current_term(me) <= ae.term
                => /\ ContradictsCommitted(me, ae) => ShutDown(me, res)
                   /\ (PrevMismatch(me, ae) /\ raft_get_commit_idx(me) < ae.prev_log_idx)
                         => SuffixDeleted(me, res, ae, h)

\* A leader of term 1 holds two entries of its term, the first of them committed:
\* a request of term 2 that carries an entry of term 2 for index 1 shuts the
\* server down, and a request of term 2 whose prev_log_term for index 2 is 2
\* takes the second entry off the log.
CommittedContradicted ==
    LET me == srv[Driven]
        one == [term |-> 2, prev_log_idx |-> 0, prev_log_term |-> 0, leader_commit |-> 0,
                entries |-> << Entry(2, 4, "NORMAL", 0) >>]
        two == [term |-> 2, prev_log_idx |-> 2, prev_log_term |-> 2, leader_commit |-> 0,
                entries |-> << >>]
    IN  /\ raft_get_current_term(me) = 1
        /\ raft_get_commit_idx(me) = 1 /\ raft_get_current_idx(me) = 2
        /\ log_get_base(me.log) = 0
        /\ log_get_at_idx(me.log, 1).term = 1 /\ log_get_at_idx(me.log, 2).term = 1
        /\ ShutDown(me, raft_recv_appendentries(me, Sender, one, now, HostOk))
        /\ raft_get_current_idx(raft_recv_appendentries(me, Sender, two, now, HostOk).r.me) = 1

\* The requests of C22, and a request with more entries than a new log has room
\* for; the hosts whose callbacks succeed or fail, and the host whose calloc
\* fails.
LongBatch == [j \in 1..(INITIAL_CAPACITY + 1) |-> Entry(1, 4, "NORMAL", 0)]

AnsweredAppendEntries ==
    SentAppendEntries
        \cup {[term |-> t, prev_log_idx |-> 0, prev_log_term |-> 0, leader_commit |-> 0,
               entries |-> LongBatch] : t \in 1..CfgMaxTerm}

NoMem == [HostOk EXCEPT !.nomem = TRUE]

AnsweringHosts == {HostOk, TermFails, PopFails, OfferFails}

\* The entry of the request for index idx is in the log, or below it.
MatchedAt(me, ae, idx) ==
    LET t == raft_get_entry_term(me, idx)
    IN  IF t.got THEN t.term = ae.entries[idx - ae.prev_log_idx].term
        ELSE idx <= raft_get_current_idx(me)

\* The index of the last entry of the request that is matched or appended.
LastMatched(me, ae) ==
    LET p == ae.prev_log_idx
        upto == {idx \in p..(p + Len(ae.entries)) :
                    \A j \in (p + 1)..idx : MatchedAt(me, ae, j)}
    IN  CHOOSE idx \in upto : \A other \in upto : other <= idx

Answered(res, ae) ==
    LET after == res.r.me
    IN  ~res.r.crash
            => /\ res.resp.term = raft_get_current_term(after)
               /\ res.resp.first_idx = ae.prev_log_idx + 1
               /\ res.resp.success \in {0, 1}
               /\ res.resp.success = 0
                     => res.resp.current_idx = raft_get_current_idx(after)
               /\ res.resp.success = 1
                     => /\ res.resp.current_idx = LastMatched(after, ae)
                        /\ res.resp.current_idx <= raft_get_current_idx(after)

\* The response is as C24 says whenever calloc succeeds.
ResponseDescribesLogWithMemory ==
    \A ae \in AnsweredAppendEntries, h \in AnsweringHosts :
        Answered(raft_recv_appendentries(srv[Driven], Sender, ae, now, h), ae)

\* C24: the response of raft_recv_appendentries carries the current_term the
\* server has at return and first_idx = prev_log_idx + 1; with success = 0 its
\* current_idx is the server's current_idx at return; with success = 1 its
\* current_idx is the index of the last entry of the request that is matched or
\* appended, and so is not above the server's current_idx, whatever the call
\* returns.
ResponseDescribesLog ==
    \A ae \in AnsweredAppendEntries, h \in AnsweringHosts \cup {NoMem} :
        Answered(raft_recv_appendentries(srv[Driven], Sender, ae, now, h), ae)

\* C25: when a leader is given a response of its term with success = 0 by a
\* peer whose match_idx is below next_idx - 1, the call returns 0, the peer's
\* next_idx becomes strictly smaller, stays within match_idx + 1 and
\* min(r.current_idx + 1, current_idx), match_idx stays, and the one message the
\* call sends is an AppendEntries from the new next_idx, or an InstallSnapshot,
\* to that peer; with match_idx = next_idx - 1 nothing but the lease changes and
\* nothing is sent.  next_idx is bounded below and falls with every such
\* response, so the responses that are not ignored are finitely many.
FailedResponses(me) ==
    {[term |-> me.current_term, success |-> 0, current_idx |-> ci, first_idx |-> 1,
      lease |-> now + ElectionTimeout] : ci \in 0..(ClusterMaxIdx + 1)}

Retried(me, node, r, res) ==
    LET next_idx == me.nodes[node].next_idx
        match_idx == me.nodes[node].match_idx
        new == res.me.nodes[node].next_idx
    IN  /\ ~res.crash /\ res.e = 0
        /\ new < next_idx
        /\ match_idx + 1 <= new
        /\ new <= Min(r.current_idx + 1, raft_get_current_idx(me))
        /\ res.me.nodes[node].match_idx = match_idx
        /\ res.me = [me EXCEPT !.nodes[node].next_idx = new, !.nodes[node].lease = r.lease]
        /\ Len(res.out) = 1
        /\ res.out[1].dst = node
        /\ \/ res.out[1].mtype = "ae" /\ res.out[1].prev_log_idx = new - 1
           \/ res.out[1].mtype = "is" /\ new <= log_get_base(me.log)

IgnoredAsStale(me, node, r, res) ==
    /\ ~res.crash /\ res.e = 0
    /\ res.me = [me EXCEPT !.nodes[node].lease = r.lease]
    /\ res.out = << >>

NextIdxBacksOff ==
    \A i \in Server, node \in Server :
      \A r \in FailedResponses(srv[i]) :
        LET me == srv[i]
            res == raft_recv_appendentries_response(me, node, r, now, HostOk)
        IN  (i # node /\ raft_is_leader(me) /\ HasNode(me, node))
                => IF me.nodes[node].match_idx < me.nodes[node].next_idx - 1
                   THEN Retried(me, node, r, res)
                   ELSE IgnoredAsStale(me, node, r, res)

\* A leader with two entries has heard nothing from a peer yet: a refusal of a
\* follower with an empty log takes next_idx from 3 to 1, and a refusal of a
\* follower with two entries takes it to 2.
RefusedByShortLog ==
    \E i \in Server, node \in Server :
        LET me == srv[i]
            r == [term |-> me.current_term, success |-> 0, current_idx |-> 0, first_idx |-> 1,
                  lease |-> now + ElectionTimeout]
            short == raft_recv_appendentries_response(me, node, r, now, HostOk)
            long == raft_recv_appendentries_response(me, node, [r EXCEPT !.current_idx = 2],
                                                     now, HostOk)
        IN  /\ i # node
            /\ raft_is_leader(me) /\ HasNode(me, node)
            /\ raft_get_current_idx(me) = 2
            /\ me.nodes[node].next_idx = 3 /\ me.nodes[node].match_idx = 0
            /\ short.me.nodes[node].next_idx = 1
            /\ long.me.nodes[node].next_idx = 2
            /\ Retried(me, node, r, short)

\* C26: raft_periodic on a leader counts the voting nodes that are the leader
\* itself, or whose lease has not run out (now < lease + grace), or that became
\* peers of this leader less than election_timeout + grace ago.  With fewer
\* than floor(n_voting / 2) + 1 of them the leader becomes a follower that
\* knows no leader and sends nothing; otherwise it stays leader, and when
\* request_timeout <= now - election_timer it sets election_timer to now and
\* sends one AppendEntries (an InstallSnapshot to a peer whose next_idx is
\* compacted away) to every other node of its table, and else sends nothing and
\* keeps its timer.
LeaseHolders(me) ==
    {P \in VotingNodes(me) :
        \/ P = me.node_id
        \/ now < me.nodes[P].lease + LeaseMaintenanceGrace
        \/ now - me.nodes[P].effective_time < ElectionTimeout + LeaseMaintenanceGrace}

SteppedDown(me, res) ==
    /\ ~res.crash
    /\ res.me.state = "FOLLOWER"
    /\ res.me.leader_id = None
    /\ res.out = << >>

SentHeartbeats(me, res) ==
    /\ res.me.election_timer = now
    /\ Len(res.out) = Cardinality(DOMAIN me.nodes \ {me.node_id})
    /\ \A P \in DOMAIN me.nodes \ {me.node_id} :
          \E k \in 1..Len(res.out) :
              /\ res.out[k].dst = P
              /\ res.out[k].src = me.node_id
              /\ \/ res.out[k].mtype = "ae"
                 \/ res.out[k].mtype = "is" /\ me.nodes[P].next_idx <= log_get_base(me.log)

StayedLeader(me, res) ==
    /\ ~res.crash
    /\ res.me.state = "LEADER"
    /\ res.me.leader_id = me.leader_id
    /\ IF RequestTimeout <= now - me.election_timer
       THEN SentHeartbeats(me, res)
       ELSE res.out = << >> /\ res.me.election_timer = me.election_timer

LeaderNeedsLeases ==
    \A i \in Server, h \in HostApply :
        LET me == srv[i]
            res == raft_periodic(me, now, h)
        IN  raft_is_leader(me)
                => IF Cardinality(LeaseHolders(me)) < (Cardinality(VotingNodes(me)) \div 2) + 1
                   THEN SteppedDown(me, res)
                   ELSE StayedLeader(me, res)

\* A leader of three voting nodes held a lease of a peer that has run out, its
\* term began an election timeout ago or more, and its next raft_periodic makes
\* it a follower.
LeaderLostLeases ==
    \E i \in Server :
        LET me == srv[i]
        IN  /\ raft_is_leader(me)
            /\ Cardinality(VotingNodes(me)) = 3
            /\ \E P \in VotingNodes(me) \ {i} : 0 < me.nodes[P].lease /\ me.nodes[P].lease <= now
            /\ LeaseHolders(me) = {i}
            /\ SteppedDown(me, raft_periodic(me, now, HostOk))

\* C27: a RequestVote, prevote or real, that reaches a leader, or a server that
\* might have granted a lease to a node other than the candidate (it started
\* less than an election timeout ago and not for the first time, or it knows a
\* leader other than the candidate and has reset its election timer less than
\* an election timeout ago), is answered NOT_GRANTED with the server's
\* current_term; the call returns 0, sends nothing and leaves the whole server
\* as it is, whatever the term of the request.
LeaseGrantedButTo(me, candidate) ==
    \/ ~me.first_start /\ now - me.start_time < ElectionTimeout
    \/ me.leader_id \notin {None, candidate} /\ now - me.election_timer < ElectionTimeout

RefusedUntouched(me, vr, res) ==
    /\ ~res.r.crash /\ res.r.e = 0
    /\ res.resp.vote_granted = RAFT_REQUESTVOTE_ERR_NOT_GRANTED
    /\ res.resp.term = me.current_term
    /\ res.resp.prevote = vr.prevote
    /\ res.r.out = << >>
    /\ res.r.me = me

LeaseHolderRefusesVote ==
    \A vr \in VoteRequestVotes, h \in {HostOk, TermFails, VoteFails} :
        LET me == srv[Driven]
        IN  (raft_is_leader(me) \/ LeaseGrantedButTo(me, vr.candidate_id))
                => RefusedUntouched(me, vr, raft_recv_requestvote(me, vr, now, h))

\* A follower of a term below the highest has heard from its leader at this very
\* time, an election timeout after its start: it refuses the vote of the highest
\* term to a third node, and does not refuse it to its leader.
FollowerRefusesThirdNode ==
    LET me == srv[Driven]
        vr == [term |-> MaxTerm, candidate_id |-> Sender, last_log_idx |-> MaxIdx,
               last_log_term |-> MaxTerm, prevote |-> FALSE]
        third == CHOOSE c \in Peers : c # Sender
    IN  /\ raft_is_follower(me)
        /\ me.current_term < MaxTerm
        /\ me.leader_id = Sender
        /\ me.election_timer = now
        /\ ElectionTimeout <= now - me.start_time
        /\ RefusedUntouched(me, [vr EXCEPT !.candidate_id = third],
                            raft_recv_requestvote(me, [vr EXCEPT !.candidate_id = third],
                                                  now, HostOk))
        /\ raft_recv_requestvote(me, vr, now, HostOk).resp.vote_granted
               = RAFT_REQUESTVOTE_ERR_GRANTED

\* C28: a message whose term is below the server's current_term changes
\* nothing: the call of its handler leaves the server as it is, in every field,
\* and sends nothing; a stale AppendEntries is answered success = 0, a stale
\* InstallSnapshot complete = 0, a stale RequestVote is not granted
\* (NOT_GRANTED, or UNKNOWN_NODE to a candidate the peer table does not hold),
\* each with the server's current_term.
StaleHosts == {HostOk, TermFails, VoteFails, [HostOk EXCEPT !.installsnapshot = 1]}

Behind(me, msgs) == {m \in msgs : m.term < me.current_term}

Untouched(me, r) == ~r.crash /\ r.me = me /\ r.out = << >>

StaleRequestsRefused(me, node, h) ==
    /\ \A ae \in Behind(me, VoteAppendEntries \cup LogAppendEntries) :
          LET res == raft_recv_appendentries(me, node, ae, now, h)
          IN  /\ Untouched(me, res.r) /\ res.r.e = 0
              /\ res.resp.success = 0
              /\ res.resp.term = me.current_term
    /\ \A is \in Behind(me, VoteInstallSnapshots \cup LogInstallSnapshots) :
          LET res == raft_recv_installsnapshot(me, node, is, now, h)
          IN  /\ Untouched(me, res.r) /\ res.r.e = 0
              /\ res.resp.complete = 0
              /\ res.resp.term = me.current_term
    /\ \A vr \in Behind(me, VoteRequestVotes) :
          LET res == raft_recv_requestvote(me, vr, now, h)
          IN  /\ Untouched(me, res.r) /\ res.r.e = 0
              /\ res.resp.vote_granted =
                     IF HasNode(me, vr.candidate_id) \/ raft_is_leader(me)
                        \/ raft_lease_granted(me, vr.candidate_id, now)
                     THEN RAFT_REQUESTVOTE_ERR_NOT_GRANTED
                     ELSE RAFT_REQUESTVOTE_ERR_UNKNOWN_NODE
              /\ res.resp.term = me.current_term

StaleResponsesDropped(me, node, h) ==
    /\ \A r \in Behind(me, VoteAppendEntriesResponses) :
          Untouched(me, raft_recv_appendentries_response(me, node, r, now, h))
    /\ \A r \in Behind(me, VoteInstallSnapshotResponses) :
          Untouched(me, raft_recv_installsnapshot_response(me, node, r, now, h))
    /\ \A r \in Behind(me, VoteVoteResponses) :
          Untouched(me, raft_recv_requestvote_response(me, node, r, now, h))

StaleMessagesDoNothing ==
    \A node \in Peers, h \in StaleHosts :
        /\ StaleRequestsRefused(srv[Driven], node, h)
        /\ StaleResponsesDropped(srv[Driven], node, h)

\* A leader of the highest term is given messages of lower terms of all six
\* kinds, from a node of its peer table.
StaleMessagesAtHighestTerm ==
    LET me == srv[Driven]
    IN  /\ me.current_term = MaxTerm
        /\ raft_is_leader(me)
        /\ HasNode(me, Sender)
        /\ Behind(me, VoteAppendEntries) # {}
        /\ Behind(me, VoteInstallSnapshots) # {}
        /\ Behind(me, VoteRequestVotes) # {}
        /\ Behind(me, VoteAppendEntriesResponses) # {}
        /\ Behind(me, VoteInstallSnapshotResponses) # {}
        /\ Behind(me, VoteVoteResponses) # {}
        /\ \A ae \in Behind(me, VoteAppendEntries) :
              raft_recv_appendentries(me, Sender, ae, now, HostOk).resp.success = 0

\* C29: a RequestVote response is counted only in the round it answers. A
\* response that reaches a server that is not CANDIDATE, or whose prevote flag
\* is not the server's, leaves the server as it is and sends nothing; after a
\* prevote response of any term, a server that is in the real election holds no
\* vote of the sender that it did not hold in the real election before, and
\* after a real-vote response a server that is in a prevote round holds the
\* votes it held before. The responses arrive in any order and any number of
\* times.
PhaseHosts == {HostOk, TermFails, VoteFails}

OtherRound(me, r) == ~raft_is_candidate(me) \/ me.prevote # r.prevote

VotesForMe(me) == {id \in DOMAIN me.nodes : me.nodes[id].vote_for_me}

InRealElection(me) == ~me.prevote /\ (raft_is_candidate(me) \/ raft_is_leader(me))

VoteResponseInItsRound(me, node, r, h) ==
    LET res == raft_recv_requestvote_response(me, node, r, now, h)
    IN  /\ OtherRound(me, r) => Untouched(me, res) /\ res.e = 0
        /\ (r.prevote /\ InRealElection(res.me) /\ node \in VotesForMe(res.me))
               => InRealElection(me) /\ node \in VotesForMe(me)
        /\ (~r.prevote /\ raft_is_candidate(res.me) /\ res.me.prevote)
               => VotesForMe(res.me) = VotesForMe(me)

VoteResponsesCountInTheirRound ==
    \A node \in Peers, r \in VoteVoteResponses, h \in PhaseHosts :
        VoteResponseInItsRound(srv[Driven], node, r, h)

GrantedNow(me, pv) ==
    [term |-> me.current_term, vote_granted |-> RAFT_REQUESTVOTE_ERR_GRANTED, prevote |-> pv]

\* A candidate in its prevote round, without the vote of a peer, is handed that
\* peer's GRANTED real vote of the current term, which it does not count, and
\* the peer's GRANTED prevote, with which it enters the real election of the
\* next term without the peer's vote.
PrevoteCandidateGivenBothVotes ==
    LET me == srv[Driven]
        real == raft_recv_requestvote_response(me, Sender, GrantedNow(me, FALSE), now, HostOk)
        pre == raft_recv_requestvote_response(me, Sender, GrantedNow(me, TRUE), now, HostOk)
    IN  /\ raft_is_candidate(me) /\ me.prevote
        /\ HasNode(me, Sender) /\ Sender \notin VotesForMe(me)
        /\ GrantedNow(me, FALSE) \in VoteVoteResponses
        /\ real.me = me
        /\ raft_is_candidate(pre.me) /\ ~pre.me.prevote
        /\ pre.me.current_term = me.current_term + 1
        /\ Sender \notin VotesForMe(pre.me)

\* A candidate in the real election is handed a peer's GRANTED prevote of the
\* current term, which it does not count.
RealCandidateGivenPrevote ==
    LET me == srv[Driven]
        pre == raft_recv_requestvote_response(me, Sender, GrantedNow(me, TRUE), now, HostOk)
    IN  /\ raft_is_candidate(me) /\ ~me.prevote
        /\ HasNode(me, Sender) /\ Sender \notin VotesForMe(me)
        /\ pre.me = me

\* C30: log_delete(idx) with base < idx <= base + count leaves current_idx at
\* idx - 1 and the entries below idx as they were; it works from the tail inward
\* in contiguous runs, and the run handed to log_pop and raft_pop_log is the
\* entries of the log at the run's indexes together with the index of its first
\* entry, so that the runs name every index from idx to current_idx once;
\* log_delete and log_poll with idx outside (base, base + count] return -1 and
\* leave the log as it is.
RingJunk == {ZeroEntry, Entry(0, 2, "NORMAL", 0)}

DeletedFrom(log, idx, d) ==
    /\ d.e = 0
    /\ log_get_current_idx(d.log) = idx - 1
    /\ log_get_base(d.log) = log_get_base(log)
    /\ \A i \in (log_get_base(log) + 1)..(idx - 1) : GetAt(d.log, i) = GetAt(log, i)

RunLengths(runs) == [n \in 1..Len(runs) |-> Len(runs[n].entries)]

SumTo(lens, n) ==
    LET RECURSIVE sum(_)
        sum(m) == IF m = 0 THEN 0 ELSE lens[m] + sum(m - 1)
    IN  sum(n)

\* The runs are as long as the stretches of the array that hold the entries from
\* idx to current_idx, the stretch at the tail first.
RunsCoverTail(log, idx, runs) ==
    /\ runs # << >>
    /\ \A n \in 1..Len(runs) : Len(runs[n].entries) > 0
    /\ SumTo(RunLengths(runs), Len(runs)) = log_get_current_idx(log) - idx + 1
    /\ \A n \in 1..Len(runs) :
          Len(runs[n].entries)
              = batch_down(log, log_get_current_idx(log) - SumTo(RunLengths(runs), n - 1),
                           log_get_current_idx(log) - SumTo(RunLengths(runs), n - 1) - idx + 1)

\* Run n holds the entries of the log that end where run n - 1 begins, and the
\* index handed over with it is the index of its first entry.
RunsAreTheirEntries(log, idx, runs) ==
    \A n \in 1..Len(runs) :
        LET first == log_get_current_idx(log) - SumTo(RunLengths(runs), n) + 1
        IN  /\ runs[n].idx = first
            /\ \A j \in 1..Len(runs[n].entries) :
                  runs[n].entries[j] = GetAt(log, first + j - 1)

OutsideFails(log, idx, junk) ==
    /\ log_delete(log, idx, CbAll, junk) = [log |-> log, e |-> -1, runs |-> << >>]
    /\ log_poll(log, idx, CbAll) = [log |-> log, e |-> -1]

\* What holds of log_delete and log_poll: the entries that stay, the lengths of
\* the runs, and the calls that fail.
DeleteRemovesTail ==
    \A idx \in RingIdxs, junk \in RingJunk :
        LET d == log_delete(RingLog, idx, CbAll, junk)
        IN  IF has_idx(RingLog, idx)
            THEN DeletedFrom(RingLog, idx, d) /\ RunsCoverTail(RingLog, idx, d.runs)
            ELSE OutsideFails(RingLog, idx, junk)

DeleteReportsRemovedRuns ==
    \A idx \in RingIdxs, junk \in RingJunk :
        LET d == log_delete(RingLog, idx, CbAll, junk)
        IN  IF has_idx(RingLog, idx)
            THEN /\ DeletedFrom(RingLog, idx, d)
                 /\ RunsCoverTail(RingLog, idx, d.runs)
                 /\ RunsAreTheirEntries(RingLog, idx, d.runs)
            ELSE OutsideFails(RingLog, idx, junk)

\* The index handed over with every run is the index of the run's first entry.
DeleteReportsRunIndexes ==
    \A idx \in RingIdxs :
        LET runs == log_delete(RingLog, idx, CbAll, ZeroEntry).runs
        IN  \A n \in 1..Len(runs) :
                runs[n].idx = log_get_current_idx(RingLog) - SumTo(RunLengths(runs), n) + 1

\* A log that lies around the end of its array is deleted in two runs.
DeletedInTwoRuns ==
    \E idx \in RingIdxs :
        /\ has_idx(RingLog, idx)
        /\ Len(log_delete(RingLog, idx, CbAll, ZeroEntry).runs) = 2

\* C31: log_append adds the entries the log_offer callback accepts and no
\* others: count and current_idx grow by the number accepted over all runs, the
\* accepted entries are read at the indexes after the old current_idx, the
\* entries below are as they were, raft_offer_log is handed the accepted
\* entries, run by run, with the index of each run's first entry, and when the
\* callback fails the call returns its error with *n the number accepted; when
\* the array cannot grow the call returns RAFT_ERR_NOMEM and the log is as it
\* was.
OfferCbs == {CbAll, [k |-> 0, e |-> -1], [k |-> 1, e |-> -1], [k |-> RingMaxBatch, e |-> -1]}

\* The entries of the runs, one after the other.
RunEntries(runs) ==
    LET RECURSIVE cat(_)
        cat(n) == IF n = 0 THEN << >> ELSE cat(n - 1) \o runs[n].entries
    IN  cat(Len(runs))

RunsInOrder(runs, first) ==
    \A n \in 1..Len(runs) :
        /\ Len(runs[n].entries) > 0
        /\ runs[n].idx = first + SumTo(RunLengths(runs), n - 1)

AppendedAccepted(log, ety, cb, a) ==
    LET t == Taken(cb, Len(ety))
        cur == log_get_current_idx(log)
    IN  /\ log_count(a.log) = log_count(log) + t
        /\ log_get_current_idx(a.log) = cur + t
        /\ log_get_base(a.log) = log_get_base(log)
        /\ \A i \in (log_get_base(log) + 1)..cur : GetAt(a.log, i) = GetAt(log, i)
        /\ \A j \in 1..t : GetAt(a.log, cur + j) = ety[j]
        /\ RunEntries(a.runs) = SubSeq(ety, 1, t)
        /\ RunsInOrder(a.runs, cur + 1)
        /\ a.n = t
        /\ a.e = IF t < Len(ety) THEN cb.e ELSE 0

AppendKeepsAccepted ==
    \A ety \in RingBatches(EntryIds), cb \in OfferCbs, nomem \in BOOLEAN :
        LET a == log_append(RingLog, ety, cb, nomem)
        IN  IF nomem /\ log_count(RingLog) + Len(ety) > RingLog.size
            THEN a.e = RAFT_ERR_NOMEM /\ a.log = RingLog /\ a.runs = << >>
            ELSE AppendedAccepted(RingLog, ety, cb, a)

\* Two entries are offered to a log whose array has one slot left before its
\* end, the callback takes the first and fails on the second, in another run.
SecondRunRefused ==
    \E ety \in RingBatches(EntryIds) :
        LET a == log_append(RingLog, ety, [k |-> 1, e |-> -1], FALSE)
        IN  /\ Len(ety) = 2
            /\ log_count(RingLog) > 0
            /\ batch_up(RingLog, log_get_current_idx(RingLog) + 1, 2) = 1
            /\ a.e = -1 /\ a.n = 1
            /\ Len(a.runs) = 1
            /\ log_count(a.log) = log_count(RingLog) + 1

\* C32: raft_begin_snapshot(idx) with idx <= commit_idx and an entry at idx,
\* when it returns 0, has applied every committed entry (last_applied_idx =
\* commit_idx), has recorded (term of the entry at idx, idx) as the snapshot and
\* has set snapshot_in_progress, whether or not a snapshot was in progress when
\* it was called; with idx above commit_idx or no entry at idx it returns -1
\* and leaves the server as it was.
BeginSnapshotIdxs == 0..(MaxIdx + 1)

SnapshotBegun(me, idx, r) ==
    /\ r.me.last_applied_idx = raft_get_commit_idx(r.me)
    /\ raft_get_commit_idx(r.me) = raft_get_commit_idx(me)
    /\ r.me.snapshot_last_term = log_get_at_idx(me.log, idx).term
    /\ r.me.snapshot_last_idx = idx
    /\ r.me.snapshot_in_progress

SnapshotRefused(me, r) == r.e = -1 /\ r.me = me /\ r.applied = << >> /\ r.out = << >>

BeginSnapshotAt(me, idx, h) ==
    LET r == raft_begin_snapshot(me, idx, h)
    IN  IF raft_get_commit_idx(me) < idx \/ ~has_idx(me.log, idx)
        THEN SnapshotRefused(me, r)
        ELSE (~r.crash /\ r.e = 0) => SnapshotBegun(me, idx, r)

BeginSnapshotAppliesAll ==
    \A idx \in BeginSnapshotIdxs, h \in HostApply :
        BeginSnapshotAt(srv[Driven], idx, h)

\* What holds: the same of the calls made while no snapshot is in progress.
BeginSnapshotAppliesAllWhenIdle ==
    \A idx \in BeginSnapshotIdxs, h \in HostApply :
        ~srv[Driven].snapshot_in_progress => BeginSnapshotAt(srv[Driven], idx, h)

\* A snapshot is begun while two committed entries are to be applied.
SnapshotBeginsWithTwoToApply ==
    LET me == srv[Driven]
        r == raft_begin_snapshot(me, 1, HostOk)
    IN  /\ ~me.snapshot_in_progress
        /\ me.last_applied_idx + 2 = raft_get_commit_idx(me)
        /\ has_idx(me.log, 1)
        /\ r.e = 0 /\ Len(r.applied) = 2

\* C33: after log_load_from_snapshot(idx, term) the log has base idx - 1 and one
\* entry, the SNAPSHOT sentinel of that term, which is read at index idx = base
\* + 1; current_idx is idx, and the next entry appended is handed to
\* raft_offer_log with index idx + 1 = base + 2 and is read there.
LoadIdxs == 1..RingMaxIdx

Sentinel(term) == Entry(term, 1, "SNAPSHOT", 0)

FollowingEntry == Entry(RingMaxIdx + 1, 2, "NORMAL", 0)

LoadedAt(idx) == log_load_from_snapshot(RingLog, idx, idx, CbAll, FALSE)

AppendedAfterLoad(idx) == log_append(LoadedAt(idx).log, << FollowingEntry >>, CbAll, FALSE)

\* The sentinel at index base and the next entry at base + 1.
SentinelAtBase ==
    \A idx \in LoadIdxs :
        LET log == LoadedAt(idx).log
            a == AppendedAfterLoad(idx)
        IN  /\ GetAt(log, log_get_base(log)) = Sentinel(idx)
            /\ a.runs = << [entries |-> << FollowingEntry >>, idx |-> log_get_base(log) + 1] >>

SentinelAboveBase ==
    \A idx \in LoadIdxs :
        LET l == LoadedAt(idx)
            log == l.log
            a == AppendedAfterLoad(idx)
        IN  /\ l.e = 0
            /\ l.runs = << [entries |-> << Sentinel(idx) >>, idx |-> 1] >>
            /\ log_get_base(log) = idx - 1
            /\ log_count(log) = 1
            /\ log_get_current_idx(log) = idx
            /\ GetAt(log, log_get_base(log)) = NoEntry
            /\ GetAt(log, log_get_base(log) + 1) = Sentinel(idx)
            /\ a.e = 0
            /\ a.runs = << [entries |-> << FollowingEntry >>, idx |-> log_get_base(log) + 2] >>
            /\ GetAt(a.log, idx) = Sentinel(idx)
            /\ GetAt(a.log, idx + 1) = FollowingEntry
            /\ log_get_current_idx(a.log) = idx + 1

\* A log that held entries around the end of its array has loaded the snapshot
\* of index 1 and has appended an entry, which it holds at index 2.
AppendedToLoadedLog ==
    /\ log_get_base(RingLog) = 0
    /\ log_count(RingLog) = 2
    /\ RingLog.size = 2 * INITIAL_CAPACITY
    /\ GetAt(RingLog, 1) = Sentinel(1)
    /\ GetAt(RingLog, 2).type = "NORMAL"
    /\ GetAt(AppendedAfterLoad(RingMaxIdx).log, RingMaxIdx + 1) = FollowingEntry

\* C34: voting_cfg_change_log_idx is none or the index of a voting
\* configuration change that the log holds and that is not yet applied (index >
\* last_applied_idx; it may be committed); a call that appends voting changes
\* leaves it at the index of the last of them, and it takes a new index by such
\* an append only.
VotingChangeAt(me, idx) ==
    Held(me, idx) /\ raft_entry_is_voting_cfg_change(log_get_at_idx(me.log, idx))

\* The indexes at which the log after holds a voting change that the log before
\* did not hold.
AppendedVotingChanges(before, after) ==
    {k \in 1..raft_get_current_idx(after) :
        /\ VotingChangeAt(after, k)
        /\ ~(Held(before, k) /\ log_get_at_idx(before.log, k) = log_get_at_idx(after.log, k))}

VotingChangeUnapplied ==
    \A i \in Server :
        srv[i].voting_cfg_change_log_idx # None
            => /\ VotingChangeAt(srv[i], srv[i].voting_cfg_change_log_idx)
               /\ srv[i].last_applied_idx < srv[i].voting_cfg_change_log_idx

VotingChangeSetByAppend ==
    \A i \in Server :
        LET new == AppendedVotingChanges(srv[i], srv'[i])
        IN  /\ new # {} =>
                srv'[i].voting_cfg_change_log_idx = CHOOSE k \in new : \A j \in new : j <= k
            /\ (/\ srv'[i].voting_cfg_change_log_idx # None
                /\ srv'[i].voting_cfg_change_log_idx # srv[i].voting_cfg_change_log_idx)
                   => srv'[i].voting_cfg_change_log_idx \in new

CatchUpAnswers(me) ==
    {[term |-> t, success |-> s, current_idx |-> ci, first_idx |-> 1,
      lease |-> CfgMaxTime + ElectionTimeout]
        : t \in {Max(me.current_term - 1, 0), me.current_term}, s \in {0, 1},
          ci \in 0..CatchUpMaxIdx}

HasSufficientLogs(me, node) == HasNode(me, node) /\ me.nodes[node].has_sufficient_logs

\* The call of raft_recv_appendentries_response calls the callback.
CallbackCalled(me, node, r) ==
    /\ HasNode(me, node)
    /\ raft_is_leader(me)
    /\ r.term = me.current_term
    /\ r.success # 0
    /\ sufficient_logs_asked(me, node, r)

CallbackCalledWhenCaughtUp(me, node, r, h) ==
    LET res == raft_recv_appendentries_response(me, node, r, now, h)
    IN  /\ CallbackCalled(me, node, r)
            => /\ ~raft_node_is_voting(me, node)
               /\ me.voting_cfg_change_log_idx = None
               /\ raft_get_current_idx(me) <= r.current_idx + 1
               /\ ~HasSufficientLogs(me, node)
        /\ (HasSufficientLogs(res.me, node) /\ ~HasSufficientLogs(me, node))
               <=> (CallbackCalled(me, node, r) /\ h.sufficient = 0)

SufficientLogsAsked ==
    \A node \in Peers, h \in CatchUpHosts :
        \A r \in CatchUpAnswers(srv[Driven]) :
            CallbackCalledWhenCaughtUp(srv[Driven], node, r, h)

SufficientLogsKept ==
    \A node \in Peers :
        (HasSufficientLogs(srv[Driven], node) /\ HasNode(srv'[Driven], node))
            => HasSufficientLogs(srv'[Driven], node)

SufficientLogsAskedOncePerRecord == []SufficientLogsAsked /\ [][SufficientLogsKept]_vars

\* Once the flag of a peer is set the callback is never called for the peer.
SufficientLogsAskedOnce ==
    \A node \in Peers :
        [](HasSufficientLogs(srv[Driven], node)
              => [](\A r \in CatchUpAnswers(srv[Driven]) :
                        ~CallbackCalled(srv[Driven], node, r)))

\* The leader has removed a node that had caught up and has added it again: the
\* callback is called for the node once more.
RemovedNodeAskedAgain ==
    LET me == srv[Driven]
        r == [term |-> me.current_term, success |-> 1, current_idx |-> CatchUpMaxIdx,
              first_idx |-> 1, lease |-> CfgMaxTime + ElectionTimeout]
    IN  /\ raft_is_leader(me)
        /\ raft_get_current_idx(me) = CatchUpMaxIdx
        /\ log_get_at_idx(me.log, CatchUpMaxIdx - 1).type = "REMOVE_NONVOTING_NODE"
        /\ log_get_at_idx(me.log, CatchUpMaxIdx).type = "ADD_NONVOTING_NODE"
        /\ CallbackCalled(me, Learner, r)
        /\ HasSufficientLogs(
               raft_recv_appendentries_response(me, Learner, r, now, HostOk).me, Learner)

\* C36: a raft_periodic that returns 0 and leaves no snapshot in progress has
\* passed every index from last_applied_idx + 1 to commit_idx to applylog, in
\* order, and leaves last_applied_idx = commit_idx; and when raft_periodic keeps
\* being called, every snapshot is ended and applylog does not return
\* RAFT_ERR_SHUTDOWN, every index up to commit_idx is in the end applied.
PeriodicHosts ==
    HostApply \cup {[HostOk EXCEPT !.applylog = [k |-> 0, e |-> -1]], TermFails, VoteFails}

PeriodicApplied(me, h) ==
    LET r == raft_periodic(me, now, h)
    IN  (~r.crash /\ r.e = 0 /\ ~raft_snapshot_is_in_progress(r.me))
            => /\ r.me.last_applied_idx = raft_get_commit_idx(r.me)
               /\ raft_get_commit_idx(r.me) = raft_get_commit_idx(me)
               /\ Len(r.applied) = raft_get_commit_idx(me) - me.last_applied_idx
               /\ \A k \in 1..Len(r.applied) : r.applied[k].idx = me.last_applied_idx + k

PeriodicAppliesCommitted ==
    \A i \in Server \ crashed, h \in PeriodicHosts : PeriodicApplied(srv[i], h)

\* A periodic call applies two committed entries.
PeriodicAppliesTwo ==
    LET r == raft_periodic(srv[Driven], now, HostOk)
    IN  r.e = 0 /\ ~raft_snapshot_is_in_progress(r.me) /\ Len(r.applied) = 2

\* A follower whose host delivers AppendEntries, begins and ends snapshots and
\* calls raft_periodic while the clock advances.
NextApply ==
    \/ Tick
    \/ HostPeriodic({HostOk})
    \/ HostRecvAppendEntries(LogAppendEntries, {HostOk})
    \/ HostBeginSnapshot(1..MaxIdx, {HostOk})
    \/ HostEndSnapshot

\* A call with the result r changes the state.
Changes(r) ==
    /\ Driven \notin crashed
    /\ InBounds(r.me, MaxTerm, MaxIdx)
    /\ \/ r.crash
       \/ r.me # srv[Driven]
       \/ last # (IF r.applied = << >> THEN NoCall
                  ELSE [i |-> Driven, before |-> srv[Driven].last_applied_idx,
                        applied |-> r.applied])
       \/ (r.me.state = "LEADER" /\ << Driven, r.me.current_term >> \notin elected)

PeriodicChanges == Changes(raft_periodic(srv[Driven], now, HostOk))
EndSnapshotChanges == Changes(raft_end_snapshot(srv[Driven], HostOk))

\* The clock advances, the host calls raft_periodic again and again and ends
\* the snapshots it begins: weak fairness of the three actions, the last two
\* written out with the state predicate that says when the call changes the
\* state.
SpecApply ==
    /\ Init /\ [][NextApply]_vars
    /\ WF_vars(Tick)
    /\ ([]<>(~PeriodicChanges) \/ []<><<HostPeriodic({HostOk})>>_vars)
    /\ ([]<>(~EndSnapshotChanges) \/ []<><<HostEndSnapshot>>_vars)

CommittedIsApplied ==
    \A k \in 1..MaxIdx :
        (raft_get_commit_idx(srv[Driven]) >= k /\ Driven \notin crashed)
            ~> (srv[Driven].last_applied_idx >= k \/ Driven \in crashed)

\* The snapshot of the server covers entries that it has not applied.
CompactedUnapplied == srv[Driven].snapshot_last_idx > srv[Driven].last_applied_idx

\* Every committed index is in the end applied, unless the entries were
\* compacted away before they were applied.
CommittedIsAppliedUnlessCompacted ==
    \A k \in 1..MaxIdx :
        (raft_get_commit_idx(srv[Driven]) >= k /\ Driven \notin crashed)
            ~> (srv[Driven].last_applied_idx >= k \/ Driven \in crashed \/ CompactedUnapplied)

\* Once the entries are compacted away unapplied raft_periodic fails for good.
PeriodicFailsWhenCompacted ==
    (Driven \notin crashed /\ CompactedUnapplied
        /\ ~raft_snapshot_is_in_progress(srv[Driven])
        /\ srv[Driven].last_applied_idx < raft_get_commit_idx(srv[Driven]))
        => LET r == raft_periodic(srv[Driven], now, HostOk)
           IN  r.e # 0 /\ r.applied = << >>

CompactedUnappliedAfterSnapshot ==
    /\ Driven \notin crashed /\ CompactedUnapplied
    /\ ~raft_snapshot_is_in_progress(srv[Driven])
    /\ srv[Driven].last_applied_idx < raft_get_commit_idx(srv[Driven])

CommitAtLoadedSnapshot ==
    LET me == srv[Driven]
    IN  /\ me.snapshot_last_idx = 2
        /\ me.log.count = 1
        /\ raft_get_commit_idx(me) = 2
        /\ raft_get_current_idx(me) = 2

\* ---- replication with two messages in the network, which overtake each
\* ---- other: the links are those of the first server, and no message is
\* ---- delivered twice
ReplMaxIdx == 1
ReplMaxMsgs == 2
Repl ==
    [Cluster EXCEPT !.links = {l \in AllLinks : Driven \in {l[1], l[2]}},
                    !.snapshots = {}, !.dup = {FALSE},
                    !.maxIdx = ReplMaxIdx, !.maxMsgs = ReplMaxMsgs]

NextRepl ==
    \/ TickCluster
    \/ Periodic(Repl)
    \/ Deliver(Repl)
    \/ ClientEntry(Repl)

SpecRepl == Init /\ [][NextRepl]_vars

\* C38: on a leader match_idx < next_idx <= current_idx + 1 for every peer, in
\* every reachable state of a cluster that exchanges the messages the servers
\* generate, and the asserts of raft_recv_appendentries_response and
\* raft_send_appendentries hold in every call made there.
IndexAsserts == {"recv_appendentries_response", "send_appendentries"}

LeaderIndexesOf(me) ==
    raft_is_leader(me)
        => \A n \in OtherNodes(me) :
              /\ me.nodes[n].match_idx < me.nodes[n].next_idx
              /\ me.nodes[n].next_idx <= raft_get_current_idx(me) + 1

IndexAssertsHold ==
    /\ \A m \in net :
          m.dst \notin crashed
              => Handle(srv[m.dst], m, now, HostOk).r.asserts \cap IndexAsserts = {}
    /\ \A i \in Server \ crashed :
          /\ raft_periodic(srv[i], now, HostOk).asserts \cap IndexAsserts = {}
          /\ \A ety \in Cluster.entries :
                raft_recv_entry(srv[i], ety, now, HostOk).r.asserts \cap IndexAsserts = {}

AcceptanceOvertaken ==
    \E m \in net :
        /\ m.mtype = "aer" /\ m.success = 1
        /\ raft_is_leader(srv[m.dst])
        /\ m.term = srv[m.dst].current_term
        /\ m.current_idx < srv[m.dst].nodes[m.src].match_idx

\* ---- configuration changes and loaded snapshots: the host of the driven
\* ---- server also loads the snapshot that a leader has told it to install
CfgSnapshots == {<< t, CfgMaxIdx, Server >> : t \in 1..2}

CfgLoadSnapshot ==
    \E sn \in CfgSnapshots :
        Hosted(Driven, load_snapshot(srv[Driven], sn[1], sn[2], sn[3], now), {}, << >>, Cfg)

NextCfgLoad ==
    \/ NextCfg
    \/ CfgLoadSnapshot

SpecCfgLoad == Init /\ [][NextCfgLoad]_vars

\* C39: voting_cfg_change_log_idx is none or the index of a voting
\* configuration change held in the log above last_applied_idx and up to
\* current_idx, in every reachable state, the states after a snapshot is loaded
\* included.
VotingChangeOf(me) ==
    me.voting_cfg_change_log_idx # None
        => /\ me.last_applied_idx < me.voting_cfg_change_log_idx
           /\ me.voting_cfg_change_log_idx <= raft_get_current_idx(me)
           /\ VotingChangeAt(me, me.voting_cfg_change_log_idx)

VotingChangeInLog == \A i \in Server : VotingChangeOf(srv[i])

\* The same where no snapshot has been loaded.
VotingChangeInLogUnlessLoaded ==
    \A i \in Server : srv[i].snapshot_last_idx = 0 => VotingChangeOf(srv[i])

\* A leader whose voting_cfg_change_log_idx is the index of a change that a
\* loaded snapshot has covered refuses the voting change of a client.
BlockedByCoveredChange ==
    LET me == srv[Driven]
    IN  /\ Driven \notin crashed
        /\ raft_is_leader(me)
        /\ me.voting_cfg_change_log_idx # None
        /\ me.voting_cfg_change_log_idx < me.snapshot_last_idx
        /\ ~VotingChangeAt(me, me.voting_cfg_change_log_idx)
        /\ raft_recv_entry(me, Entry(0, 3, "DEMOTE_NODE", 3), now, HostOk).r.e
               = RAFT_ERR_ONE_VOTING_CHANGE_ONLY

\* Nothing but a new voting change moves voting_cfg_change_log_idx once a
\* loaded snapshot has covered it.
CoveredChangeStays ==
    [][(/\ srv[Driven].voting_cfg_change_log_idx # None
        /\ srv[Driven].voting_cfg_change_log_idx <= srv[Driven].last_applied_idx
        /\ AppendedVotingChanges(srv[Driven], srv'[Driven]) = {})
          => srv'[Driven].voting_cfg_change_log_idx = srv[Driven].voting_cfg_change_log_idx]_vars

\* C40: a leader, and a candidate whose prevote flag is cleared, has voted for
\* itself, in every reachable state; and no raft_recv_requestvote fails the
\* assert that a leader or such a candidate grants no vote.
VotedCandidate(me) == raft_is_leader(me) \/ (raft_is_candidate(me) /\ ~me.prevote)

GrantHosts == {HostOk, TermFails, VoteFails}

\* The requests are those of other servers: no server sends itself one.
GrantAssertHolds(me) ==
    \A vr \in VoteRequestVotes, h \in GrantHosts :
        vr.candidate_id # me.node_id
            => "recv_requestvote" \notin raft_recv_requestvote(me, vr, now, h).r.asserts

VotedForItself ==
    \A i \in Server :
        /\ VotedCandidate(srv[i]) => srv[i].voted_for = srv[i].node_id
        /\ i \notin crashed => GrantAssertHolds(srv[i])

\* A candidate whose prevote flag is cleared is asked for its vote in its own
\* term by a peer whose log is as good as its own, and refuses.
VotedCandidateRefuses ==
    LET me == srv[Driven]
    IN  /\ Driven \notin crashed
        /\ raft_is_candidate(me) /\ ~me.prevote
        /\ \E vr \in VoteRequestVotes :
             /\ ~vr.prevote
             /\ vr.term = me.current_term
             /\ vr.last_log_idx >= raft_get_current_idx(me)
             /\ vr.last_log_term >= raft_get_last_log_term(me)
             /\ raft_recv_requestvote(me, vr, now, HostOk).resp.vote_granted
                    = RAFT_REQUESTVOTE_ERR_NOT_GRANTED

\* A candidate whose vote for itself could not be stored keeps its prevote flag.
CandidateWithoutVote ==
    LET me == srv[Driven]
    IN  /\ raft_is_candidate(me) /\ me.prevote
        /\ me.voted_for = None
        /\ me.current_term > 0

\* A request that names the server itself as the candidate is granted by a
\* candidate that has voted for itself, against the assert.
OwnCandidacyGranted ==
    LET me == srv[Driven]
        vr == [term |-> me.current_term, candidate_id |-> me.node_id,
               last_log_idx |-> raft_get_current_idx(me),
               last_log_term |-> raft_get_last_log_term(me), prevote |-> FALSE]
    IN  /\ Driven \notin crashed
        /\ raft_is_candidate(me) /\ ~me.prevote
        /\ "recv_requestvote" \in raft_recv_requestvote(me, vr, now, HostOk).r.asserts

====
